---- MODULE Spec2Model ----
(***************************************************************************)
(* Model of the node manager's reconciliation engine:                      *)
(*   MonitoringService.perform_health_check / _sync_all_zones /            *)
(*   _apply_capacity_filtering          (src/src/monitoring_service.py)    *)
(*   DNSManager.sync_dns_records        (src/src/cloudflare_dns/...)       *)
(* One health-check cycle takes a snapshot of the nodes and then walks     *)
(* the configured zones in order; for each zone it resolves the zone id,   *)
(* runs the capacity filter and reconciles the provider's A records.       *)
(***************************************************************************)
EXTENDS Integers, Sequences, FiniteSets, Bags, TLC

(***************************************************************************)
(* Bounds of the model.                                                    *)
(***************************************************************************)
\* Largest users_online value a node reports in a snapshot.
MaxUsersOnline == 3
\* Largest configured min-active-nodes floor.
MaxMinActive == 2
\* Largest number of failed requests of one provider call that is followed
\* (the retry loops of the client have no limit of their own).
MaxAttempt == 2
\* Number of consecutive runs of sync_dns_records that are followed.
MaxRuns == 2
\* messages handed to the notifier in one run of the process, the
\* service-stopped one not counted
MaxMessages == 3
\* TelegramNotifier.queue_size, scaled down (notifier.py line 22: 100)
queue_size == 2
\* CloudflareClient.retry_delay in seconds: 1..MaxRetryDelay (default 1.0)
MaxRetryDelay == 3
\* failed requests of one client call
MaxRetries == 31
\* the cap of a retry delay in seconds (client.py line 26)
RetryDelayCap == 30

(***************************************************************************)
(* Configuration (immutable for the process lifetime).                     *)
(***************************************************************************)
\* Config.get_all_zones(): two zones of one domain; "a" and "b" are
\* configured in both, "c" only in s2.  Lists hold no duplicates.
Zones ==
  << [name |-> "s1", domain |-> "example.com", ttl |-> 120, proxied |-> FALSE,
      ips |-> <<"a", "b">>],
     [name |-> "s2", domain |-> "example.com", ttl |-> 60, proxied |-> TRUE,
      ips |-> <<"a", "b", "c">>] >>

NZones == Len(Zones)

Range(s) == {s[i] : i \in 1..Len(s)}

\* MonitoringService._get_all_configured_ips
ConfiguredIps == UNION {Range(Zones[z].ips) : z \in 1..NZones}

\* An address that may have an A record at the provider without being
\* configured in any zone (a stale record).
StrayIp == "x"

\* The load-balancing settings the filter reads through config.lb_enabled,
\* lb_max_users, lb_recover_users, lb_min_active_nodes (lines 178-183).
\* src/src/config.py defines none of these accessors; the values are those
\* of a configuration object such as the tests' FakeConfig.  They are not
\* validated: recover_users may equal or exceed max_users.
LbSettings ==
     { [lb_enabled |-> TRUE, lb_max_users |-> 2, lb_recover_users |-> 1,
        lb_min_active_nodes |-> m] : m \in 0..MaxMinActive }
  \cup
     { [lb_enabled |-> TRUE, lb_max_users |-> 2, lb_recover_users |-> 2,
        lb_min_active_nodes |-> 1],
       [lb_enabled |-> TRUE, lb_max_users |-> 2, lb_recover_users |-> 4,
        lb_min_active_nodes |-> 1],
       [lb_enabled |-> FALSE, lb_max_users |-> 2, lb_recover_users |-> 1,
        lb_min_active_nodes |-> 1] }

VARIABLES
  config,          \* the load-balancing settings of this process
  overloaded_ips,  \* MonitoringService._overloaded_ips
  zone_id_cache,   \* MonitoringService._zone_id_cache (domains resolved)
  records,         \* provider: zone index -> set of A records of full_domain
  pos,             \* 0: between cycles; i: zone i is the next of the loop;
                   \* NZones + 1: the zone loop is over
  healthy_addresses, \* snapshot of the cycle: healthy configured addresses
  users_by_ip,     \* snapshot of the cycle: address -> users_online
  lastZone,        \* zone of the latest filter call of this cycle (0: none)
  ovBefore,        \* _overloaded_ips when that call started
  effective,       \* the set that call returned
  capLog,          \* throttled/restored transitions that call reported
  dnsOps,          \* creates and deletes issued by the sync after that call
  insertedOver,    \* history: the throttled addresses that entered the
                   \* overload set in a cycle that saw them healthy with
                   \* more users than lb_max_users
  lowSince,        \* history: the throttled addresses that a cycle later
                   \* than their insertion saw healthy with fewer users
                   \* than lb_recover_users
  resolution,      \* how the latest zone of the loop got its zone id:
                   \* "cached", "resolved" (the provider was asked and knew
                   \* the domain), "failed" (asked, unknown); "none" before
                   \* the first zone
  cacheBefore,     \* _zone_id_cache when that zone was reached
  failedDomains    \* history: domains whose resolution failed in this cycle

\* One run of DNSManager.sync_dns_records followed call by call.
VARIABLES
  syncPc,          \* "idle", "add" (lines 48-51), "remove_unhealthy" (54-57),
                   \* "remove_unconfigured" (60-63), "done"; "interrupted":
                   \* the run was left by a shutdown signal
  syncZone,        \* index of the zone the run is for (0: none)
  syncHealthy,     \* the healthy_ips argument of the run
  notify_errors,   \* self.notifier and self.notify_errors
  syncExisting,    \* the records fetched at line 36
  pending,         \* addresses the current loop has not reached yet
  cur,             \* address whose client call is in progress, or "none"
  attempt,         \* failed requests of the client call in progress
  calls,           \* bag of the client calls the run has issued
  rejections,      \* bag of the requests of the run the provider answered
                   \* with a client error (4xx)
  dns_errors,      \* bag of the DNSError events the run has emitted
  run,             \* number of runs started in a row
  errFree          \* no provider request has failed in any run so far

\* The notifier and the bookkeeping of MonitoringService that serves it.
VARIABLES
  notifier,        \* the service was given a notifier
  telegram_notify_node_changes, \* config.telegram_notify_node_changes
  telegram_notify_critical,     \* config.telegram_notify_critical
  telegram_notify_errors,       \* config.telegram_notify_errors
  telegram_notify_dns_changes,  \* config.telegram_notify_dns_changes
  previous_node_states, \* _previous_node_states: address -> "none" (no
                   \* entry), "healthy" or "unhealthy"
  previous_all_down, \* _previous_all_down
  lastHealth,      \* history: address -> health at its latest observation
                   \* by the transition bookkeeping
  lastAllDown,     \* history: the latest snapshot the critical-state
                   \* bookkeeping saw reported configured nodes and none
                   \* of them healthy
  sinceAlert,      \* history: "never" while no all-down alert was emitted;
                   \* after one, "stayed_down" until a cycle is not
                   \* all-down, then "not_down" until a cycle has a
                   \* healthy node, then "healthy"
  notified         \* what the bookkeeping of this cycle saw and emitted

\* run_monitoring_loop (__main__.py 21-40) around perform_health_check.
VARIABLES
  loopPc,          \* "call": the loop is at line 26, about to call
                   \* perform_health_check; "in_check": it awaits the call;
                   \* "sleep": at line 29 after a cycle that returned;
                   \* "retry_sleep": at line 38 after one that raised;
                   \* "stopped": the loop was left (lines 31, 34)
  outcome,         \* how the latest call of perform_health_check ended:
                   \* "none" (no call yet, or the call is in flight),
                   \* "returned", "raised" (an Exception left it),
                   \* "interrupted" (GracefulExit was raised in it)
  health_errors,   \* HealthCheckError events the latest call emitted
  inFlight,        \* calls of perform_health_check that have not ended
  signalled        \* a shutdown signal was delivered to the process

\* TelegramNotifier and the part of main that starts and stops it.
VARIABLES
  enabled,         \* TelegramNotifier.enabled
  queue,           \* _queue: the messages waiting, oldest first
  running,         \* _running
  mainPc,          \* "start": before notifier.start() (__main__.py 83);
                   \* "run": between start() and the finally block;
                   \* "grace": in the wait loop of stop() (69-70);
                   \* "stopped": stop() has returned
  workerPc,        \* "none": no worker task; "get": awaiting _queue.get()
                   \* (line 91); "send": in _send_with_retry (95); "pause":
                   \* in the sleep of line 97; "exited": the loop of line 88
                   \* was left; "cancelled": stop() cancelled the task
  held,            \* the message the worker took and has not sent (0: none)
  send_attempt,    \* failed attempts of the send in progress
  sent,            \* history: the messages delivered, in order
  accepted,        \* history: the messages put_nowait accepted, in order
  dropped,         \* history: the messages dropped because the queue was full
  retried,         \* history: the messages a send of which has failed
  nextId,          \* messages are numbered in the order they are handed over
  queuedAtStop,    \* history: _queue when stop() cleared _running
  graceElapsed     \* history: stop() left its wait loop on the timer

queueVars == << enabled, queue, running, mainPc, workerPc, held, send_attempt,
                sent, accepted, dropped, retried, nextId, queuedAtStop,
                graceElapsed >>

loopVars == << loopPc, outcome, health_errors, inFlight, signalled >>

notifyVars == << notifier, telegram_notify_node_changes,
                 telegram_notify_critical, telegram_notify_errors,
                 telegram_notify_dns_changes, previous_node_states,
                 previous_all_down, lastHealth, lastAllDown, sinceAlert,
                 notified >>

cycleVars == << config, overloaded_ips, zone_id_cache, pos,
                healthy_addresses, users_by_ip, lastZone, ovBefore, effective,
                capLog, dnsOps, insertedOver, lowSince, resolution,
                cacheBefore, failedDomains >>

\* One call of a method of CloudflareClient followed request by request.
VARIABLES
  retry_delay,     \* CloudflareClient.retry_delay, in seconds
  callOp,          \* the method called, one of ClientMethods
  callAttempt,     \* its local variable attempt
  lastDelay,       \* the delay of its latest _retry_delay (0: none)
  lastFailure,     \* how its latest request failed: "none", "transient"
                   \* (no status code below 500) or "client_error" (4xx)
  callOutcome      \* "pending", "retry_delay", "returned" or "raised"

retryVars == << retry_delay, callOp, callAttempt, lastDelay, lastFailure,
                callOutcome >>

syncVars == << syncPc, syncZone, syncHealthy, notify_errors, syncExisting,   
               pending, cur, attempt, calls, rejections, dns_errors, run,
               errFree, retryVars >>

vars == << cycleVars, records, syncVars, notifyVars, loopVars, queueVars >>

(***************************************************************************)
(* MonitoringService._apply_capacity_filtering                             *)
(***************************************************************************)
\* Mutant: the throttle threshold taken as inclusive.
OverMaxInclusive(users) == users >= config.lb_max_users

\* users > max_users (line 213)
OverMax(users) == users > config.lb_max_users

\* Mutant: the recovery threshold one too low.
UnderRecoverOffByOne(users) == users + 1 < config.lb_recover_users

\* Mutant: the recovery threshold taken as inclusive.
UnderRecoverInclusive(users) == users <= config.lb_recover_users

\* Mutant: the recovery comparison reversed.
UnderRecoverReversed(users) == users > config.lb_recover_users

\* users < recover_users (line 257)
UnderRecover(users) == users < config.lb_recover_users

\* Mutant: the floor compared strictly.
FloorReachedStrict(active_count) == active_count < config.lb_min_active_nodes

\* active_count <= min_active (line 219)
FloorReached(active_count) == active_count <= config.lb_min_active_nodes

\* zone_healthy_ips (line 191), in configured order
ZoneHealthyIps(configured_ips, healthy) ==
  SelectSeq(configured_ips, LAMBDA ip : ip \in healthy)

\* effective = set(healthy_addresses) (line 192)
StartEffective(healthy) == healthy

\* active_count (lines 215-218): one per list entry still in the result and
\* not throttled
ActiveCount(zone_healthy_ips, eff, ov) ==
  Cardinality({i \in 1..Len(zone_healthy_ips) :
                  /\ zone_healthy_ips[i] \in eff
                  /\ zone_healthy_ips[i] \notin ov})

\* Mutant: the test "ip not in self._overloaded_ips" left out.
ThrottleStepNoGuard(zone_healthy_ips, ip, st, users) ==
  IF OverMax(users[ip])
  THEN IF FloorReached(ActiveCount(zone_healthy_ips, st.eff, st.ov))
       THEN st
       ELSE [ov  |-> st.ov \cup {ip},
             eff |-> st.eff \ {ip},
             log |-> Append(st.log, <<"throttled", ip>>)]
  ELSE st

\* One iteration of the throttle loop (lines 212-230).
\* st = [ov, eff, log]: overload set, result set, reported transitions.
ThrottleStep(zone_healthy_ips, ip, st, users) ==
  IF OverMax(users[ip]) /\ ip \notin st.ov
  THEN IF FloorReached(ActiveCount(zone_healthy_ips, st.eff, st.ov))
       THEN st
       ELSE [ov  |-> st.ov \cup {ip},
             eff |-> st.eff \ {ip},
             log |-> Append(st.log, <<"throttled", ip>>)]
  ELSE st

\* Phase 1 (lines 211-247): the state after the first n entries of
\* zone_healthy_ips have been examined.
RECURSIVE ThrottlePhase(_, _, _, _)
ThrottlePhase(zone_healthy_ips, n, st, users) ==
  IF n = 0 THEN st
  ELSE ThrottleStep(zone_healthy_ips, zone_healthy_ips[n],
                    ThrottlePhase(zone_healthy_ips, n - 1, st, users), users)

\* Mutant: the else branch (lines 279-281) left out.
RestoreStepNoDiscard(configured_ips, healthy, ip, st, users) ==
  IF ip \notin Range(configured_ips) THEN st
  ELSE IF ip \notin healthy THEN st
  ELSE IF UnderRecover(users[ip])
       THEN [ov  |-> st.ov \ {ip},
             eff |-> st.eff \cup {ip},
             log |-> Append(st.log, <<"restored", ip>>)]
       ELSE st

\* Mutant: the zone test (lines 251-252) left out.
RestoreStepAnyZone(configured_ips, healthy, ip, st, users) ==
  IF ip \notin healthy THEN st
  ELSE IF UnderRecover(users[ip])
       THEN [ov  |-> st.ov \ {ip},
             eff |-> st.eff \cup {ip},
             log |-> Append(st.log, <<"restored", ip>>)]
       ELSE [st EXCEPT !.eff = st.eff \ {ip}]

\* Mutant: the restore branch (lines 256-272) left out.
RestoreStepKeeps(configured_ips, healthy, ip, st, users) ==
  IF ip \notin Range(configured_ips) THEN st
  ELSE IF ip \notin healthy THEN st
  ELSE [st EXCEPT !.eff = st.eff \ {ip}]

\* Mutant: the health test of lines 253-254 left out.
RestoreStepIgnoresHealth(configured_ips, healthy, ip, st, users) ==
  IF ip \notin Range(configured_ips) THEN st
  ELSE IF UnderRecover(users[ip])
       THEN [ov  |-> st.ov \ {ip},
             eff |-> st.eff \cup {ip},
             log |-> Append(st.log, <<"restored", ip>>)]
       ELSE [st EXCEPT !.eff = st.eff \ {ip}]

\* Mutant: the restore loop left after its first restore.
RestoreStepOncePerCall(configured_ips, healthy, ip, st, users) ==
  IF ip \notin Range(configured_ips) THEN st
  ELSE IF ip \notin healthy THEN st
  ELSE IF UnderRecover(users[ip]) /\
          \A i \in 1..Len(st.log) : st.log[i][1] # "restored"
       THEN [ov  |-> st.ov \ {ip},
             eff |-> st.eff \cup {ip},
             log |-> Append(st.log, <<"restored", ip>>)]
       ELSE [st EXCEPT !.eff = st.eff \ {ip}]

\* One iteration of the restore loop (lines 251-281).
RestoreStep(configured_ips, healthy, ip, st, users) ==
  IF ip \notin Range(configured_ips) THEN st
  ELSE IF ip \notin healthy THEN st
  ELSE IF UnderRecover(users[ip])
       THEN [ov  |-> st.ov \ {ip},
             eff |-> st.eff \cup {ip},
             log |-> Append(st.log, <<"restored", ip>>)]
       ELSE [st EXCEPT !.eff = st.eff \ {ip}]

\* Phase 2 (lines 250-281) over order = list(self._overloaded_ips).
RECURSIVE RestorePhase(_, _, _, _, _, _)
RestorePhase(configured_ips, healthy, order, n, st, users) ==
  IF n = 0 THEN st
  ELSE RestoreStep(configured_ips, healthy, order[n],
                   RestorePhase(configured_ips, healthy, order, n - 1, st, users),
                   users)

\* The orders in which list(a_set) may enumerate the set.
Orders(S) ==
  {s \in [1..Cardinality(S) -> S] : \A x \in S : \E i \in DOMAIN s : s[i] = x}

\* State after phase 1 of a call (lines 190-247).
AfterThrottle(configured_ips, healthy, users, ov) ==
  LET zh == ZoneHealthyIps(configured_ips, healthy)
  IN  ThrottlePhase(zh, Len(zh),
                    [ov |-> ov, eff |-> StartEffective(healthy), log |-> <<>>],
                    users)

\* lines 178-179: load balancing disabled
PassThrough(healthy, ov) == [ov |-> ov, eff |-> healthy, log |-> <<>>]

\* Mutant: the early return of lines 178-179 left out.
ApplyCapacityFilteringAlways(configured_ips, healthy, users, ov, order) ==
  RestorePhase(configured_ips, healthy, order, Len(order),
               AfterThrottle(configured_ips, healthy, users, ov), users)

\* The whole call: [ov |-> new overload set, eff |-> returned set, log].
\* order enumerates the overload set as it stands after phase 1.
ApplyCapacityFiltering(configured_ips, healthy, users, ov, order) ==
  IF ~config.lb_enabled
  THEN PassThrough(healthy, ov)
  ELSE RestorePhase(configured_ips, healthy, order, Len(order),
                    AfterThrottle(configured_ips, healthy, users, ov), users)

(***************************************************************************)
(* DNSManager.sync_dns_records, every provider call succeeding.            *)
(* The provider holds at most one A record per name and content, so a      *)
(* record is identified by its content.                                    *)
(***************************************************************************)
\* existing_ips (line 37)
ExistingIps(existing_records) == {r.content : r \in existing_records}

\* lines 48-51: healthy configured addresses without a record
IpsToAdd(existing_records, configured_ips, healthy_ips) ==
  (Range(configured_ips) \cap healthy_ips) \ ExistingIps(existing_records)

\* lines 54-57: configured addresses that are not healthy and have a record
UnhealthyToRemove(existing_records, configured_ips, healthy_ips) ==
  (Range(configured_ips) \ healthy_ips) \cap ExistingIps(existing_records)

\* Mutant: the loop over unconfigured records left out.
StrayToRemoveNone(existing_records, configured_ips) == {}

\* lines 60-63: records of addresses that are not configured
StrayToRemove(existing_records, configured_ips) ==
  ExistingIps(existing_records) \ Range(configured_ips)

\* The run: the creates and deletes it issues (lines 47-63) and the
\* provider's records of full_domain after them.
SyncDnsRecords(existing_records, configured_ips, healthy_ips, ttl, proxied) ==
  LET removed == UnhealthyToRemove(existing_records, configured_ips, healthy_ips)
                   \cup StrayToRemove(existing_records, configured_ips)
      added   == IpsToAdd(existing_records, configured_ips, healthy_ips)
  IN  [created |-> added,
       deleted |-> removed,
       records |-> {r \in existing_records : r.content \notin removed}
                     \cup {[content |-> ip, ttl |-> ttl, proxied |-> proxied] :
                              ip \in added}]

NoDnsOps == [created |-> {}, deleted |-> {}]

(***************************************************************************)
(* The state machine.                                                      *)
(***************************************************************************)
\* Records a zone may hold at the provider when the process starts: any
\* subset of its first configured address and a stray one, with a ttl of
\* their own.
StartRecords(z) ==
  {[content |-> ip, ttl |-> 300, proxied |-> FALSE] : ip \in {Zones[z].ips[1], StrayIp}}

\* Snapshots of a cycle: the node-status source's verdicts for the configured
\* nodes.  The user count of an unhealthy node is never read by the cycle
\* (lines 191, 212, 253-256); the snapshot carries 0 for it.
Snapshots(healthy) ==
  {u \in [ConfiguredIps -> 0..MaxUsersOnline] :
      \A ip \in ConfiguredIps : ip \notin healthy => u[ip] = 0}

\* History: the addresses of S that the snapshot (healthy, users) shows
\* healthy with more users than lb_max_users.
SeenOver(S, healthy, users) ==
  {ip \in S \cap healthy : users[ip] > config.lb_max_users}

\* History: the addresses of S that the snapshot shows healthy with fewer
\* users than lb_recover_users.
SeenLow(S, healthy, users) ==
  {ip \in S \cap healthy : users[ip] < config.lb_recover_users}

\* What the bookkeeping records about a cycle it has not run in.
NothingNotified ==
  [nodes |-> {}, transitions |-> {}, critical |-> 0,
   healthBefore |-> [ip \in ConfiguredIps |-> "none"],
   downBefore |-> FALSE, rearmedBy |-> "none"]

\* The bookkeeping after construction (lines 26-28).
NotifyFresh ==
  /\ previous_node_states = [ip \in ConfiguredIps |-> "none"]
  /\ previous_all_down = FALSE
  /\ lastHealth = [ip \in ConfiguredIps |-> "none"]
  /\ lastAllDown = FALSE
  /\ sinceAlert = "never"
  /\ notified = NothingNotified

\* The notifier after construction (notifier.py 35-39); its queue and
\* worker are followed in the specification of the notifier only.
QueueFresh ==
  /\ queue = <<>>
  /\ running = FALSE
  /\ mainPc = "start"
  /\ workerPc = "none"
  /\ held = 0
  /\ send_attempt = 0
  /\ sent = <<>>
  /\ accepted = <<>>
  /\ dropped = {}
  /\ retried = {}
  /\ nextId = 1
  /\ queuedAtStop = <<>>
  /\ graceElapsed = FALSE

\* The loop before its first iteration (__main__.py 24-26).
LoopFresh ==
  /\ loopPc = "call"
  /\ outcome = "none"
  /\ health_errors = 0
  /\ inFlight = 0
  /\ signalled = FALSE

\* No client call is followed request by request.
RetryIdle ==
  /\ retry_delay = 1
  /\ callOp = "get_dns_records"
  /\ callAttempt = 0
  /\ lastDelay = 0
  /\ lastFailure = "none"
  /\ callOutcome = "returned"

\* No run of sync_dns_records is followed call by call.
SyncIdle ==
  /\ RetryIdle
  /\ syncPc = "idle"
  /\ syncZone = 0
  /\ syncHealthy = {}
  /\ notify_errors = FALSE
  /\ syncExisting = {}
  /\ pending = {}
  /\ cur = "none"
  /\ attempt = 0
  /\ calls = EmptyBag
  /\ rejections = EmptyBag
  /\ dns_errors = EmptyBag
  /\ run = 0
  /\ errFree = TRUE

Init ==
  /\ config \in LbSettings
  /\ overloaded_ips = {}
  /\ zone_id_cache = {}
  /\ records \in [1..NZones -> SUBSET UNION {StartRecords(z) : z \in 1..NZones}]
  /\ \A z \in 1..NZones : records[z] \subseteq StartRecords(z)
  /\ pos = 0
  /\ healthy_addresses = {}
  /\ users_by_ip = [ip \in ConfiguredIps |-> 0]
  /\ lastZone = 0
  /\ ovBefore = {}
  /\ effective = {}
  /\ capLog = <<>>
  /\ dnsOps = NoDnsOps
  /\ insertedOver = {}
  /\ lowSince = {}
  /\ resolution = "none"
  /\ cacheBefore = {}
  /\ failedDomains = {}
  /\ SyncIdle
  /\ notifier = FALSE
  /\ telegram_notify_node_changes = FALSE
  /\ telegram_notify_critical = FALSE
  /\ telegram_notify_errors = FALSE
  /\ telegram_notify_dns_changes = FALSE
  /\ NotifyFresh
  /\ LoopFresh
  /\ enabled = notifier
  /\ QueueFresh

\* Mutant: the loop calling perform_health_check without awaiting the call
\* in flight.
LoopMayCallUnawaited == loopPc \in {"call", "in_check"}

\* __main__.py line 26: the loop calls perform_health_check only from the top
\* of an iteration, and awaits it.
LoopMayCall == loopPc = "call"

\* The call of line 26 starts.
CallStarts ==
  /\ loopPc' = "in_check"
  /\ outcome' = "none"
  /\ health_errors' = 0
  /\ inFlight' = inFlight + 1
  /\ UNCHANGED signalled

\* perform_health_check up to the zone loop (lines 62-105), the service
\* having no notifier: the transition and critical-state bookkeeping return
\* at lines 296 and 339.
StartCycle ==
  /\ LoopMayCall
  /\ ~notifier
  /\ \E h \in SUBSET ConfiguredIps :
       \E u \in Snapshots(h) :
         /\ healthy_addresses' = h
         /\ users_by_ip' = u
         /\ lowSince' = lowSince \cup SeenLow(overloaded_ips, h, u)
  /\ pos' = 1
  /\ CallStarts
  /\ UNCHANGED << config, overloaded_ips, zone_id_cache, records, lastZone,
                  ovBefore, effective, capLog, dnsOps, insertedOver,
                  resolution, cacheBefore, failedDomains >>
  /\ UNCHANGED << syncVars, notifyVars, queueVars >>

\* Mutant: the store of lines 290-291 left out.
GetZoneIdNoStore(domain, known) ==
  IF domain \in zone_id_cache
  THEN [found |-> TRUE, cache |-> zone_id_cache, how |-> "cached"]
  ELSE IF known
       THEN [found |-> TRUE, cache |-> zone_id_cache, how |-> "resolved"]
       ELSE [found |-> FALSE, cache |-> zone_id_cache, how |-> "failed"]

\* _get_zone_id (lines 285-293).  known: the provider lists a zone for the
\* domain (client.py 148-158); it is asked only when the cache has no entry.
GetZoneId(domain, known) ==
  IF domain \in zone_id_cache
  THEN [found |-> TRUE, cache |-> zone_id_cache, how |-> "cached"]
  ELSE IF known
       THEN [found |-> TRUE, cache |-> zone_id_cache \cup {domain},
             how |-> "resolved"]
       ELSE [found |-> FALSE, cache |-> zone_id_cache, how |-> "failed"]

\* What the provider may answer when asked whether it lists a zone for the
\* domain; it is not asked when the cache has an entry (line 286).
ProviderKnows(domain) ==
  IF domain \in zone_id_cache THEN {TRUE} ELSE BOOLEAN

\* One iteration of the zone loop whose zone id resolves (lines 134-162):
\* from the cache, or from the provider, which then is cached (285-293).
\* What it does to the variables of the cycle and to the provider's records.
ZoneWork ==
  /\ pos \in 1..NZones
  /\ loopPc = "in_check"
  /\ \E known \in ProviderKnows(Zones[pos].domain) :
       LET got == GetZoneId(Zones[pos].domain, known)
       IN  /\ got.found
           /\ zone_id_cache' = got.cache
           /\ resolution' = got.how
  /\ cacheBefore' = zone_id_cache
  /\ UNCHANGED failedDomains
  /\ LET zone == Zones[pos] IN
     \E order \in Orders(AfterThrottle(zone.ips, healthy_addresses, users_by_ip,
                                        overloaded_ips).ov) :
       LET res  == ApplyCapacityFiltering(zone.ips, healthy_addresses,
                                          users_by_ip, overloaded_ips, order)
           sync == SyncDnsRecords(records[pos], zone.ips, res.eff, zone.ttl,
                                  zone.proxied)
       IN  /\ overloaded_ips' = res.ov
           /\ effective' = res.eff
           /\ capLog' = res.log
           /\ records' = [records EXCEPT ![pos] = sync.records]
           /\ dnsOps' = [created |-> sync.created, deleted |-> sync.deleted]
           /\ insertedOver' = (insertedOver \cap res.ov)
                \cup SeenOver(res.ov \ overloaded_ips, healthy_addresses,
                              users_by_ip)
           /\ lowSince' = lowSince \cap (res.ov \cap overloaded_ips)
  /\ lastZone' = pos
  /\ ovBefore' = overloaded_ips
  /\ pos' = pos + 1
  /\ UNCHANGED << config, healthy_addresses, users_by_ip >>

\* That iteration in the specifications that do not follow the notifier's
\* queue.
ZoneStep ==
  /\ ZoneWork
  /\ UNCHANGED << syncVars, notifyVars >>
  /\ UNCHANGED << loopVars, queueVars >>

\* One iteration of the zone loop whose zone id is not cached and not found
\* by the provider: the zone is skipped (lines 139-142).
ZoneSkipped ==
  /\ pos \in 1..NZones
  /\ loopPc = "in_check"
  /\ \E known \in ProviderKnows(Zones[pos].domain) :
       LET got == GetZoneId(Zones[pos].domain, known)
       IN  /\ ~got.found
           /\ zone_id_cache' = got.cache
           /\ resolution' = got.how
  /\ cacheBefore' = zone_id_cache
  /\ failedDomains' = failedDomains \cup {Zones[pos].domain}
  /\ pos' = pos + 1
  /\ lastZone' = 0
  /\ ovBefore' = {}
  /\ effective' = {}
  /\ capLog' = <<>>
  /\ dnsOps' = NoDnsOps
  /\ UNCHANGED << config, overloaded_ips, records,
                  healthy_addresses, users_by_ip, insertedOver, lowSince >>
  /\ UNCHANGED << syncVars, notifyVars >>
  /\ UNCHANGED << loopVars, queueVars >>

\* The cycle completes (line 107) and the loop sleeps until the next one
\* (__main__.py 27-29): the snapshot and everything else scoped to the cycle
\* is dropped.
EndCycle ==
  /\ pos = NZones + 1
  /\ loopPc = "in_check"
  /\ pos' = 0
  /\ loopPc' = "sleep"
  /\ outcome' = "returned"
  /\ health_errors' = 0
  /\ inFlight' = inFlight - 1
  /\ UNCHANGED signalled
  /\ healthy_addresses' = {}
  /\ users_by_ip' = [ip \in ConfiguredIps |-> 0]
  /\ lastZone' = 0
  /\ ovBefore' = {}
  /\ effective' = {}
  /\ capLog' = <<>>
  /\ dnsOps' = NoDnsOps
  /\ UNCHANGED << config, overloaded_ips, zone_id_cache, records,
                  insertedOver, lowSince >>
  /\ notified' = NothingNotified
  /\ resolution' = "none"
  /\ cacheBefore' = {}
  /\ failedDomains' = {}
  /\ UNCHANGED << notifier, telegram_notify_node_changes,
                  telegram_notify_critical, telegram_notify_errors,
                  telegram_notify_dns_changes, previous_node_states,
                  previous_all_down, lastHealth, lastAllDown, sinceAlert >>
  /\ UNCHANGED << syncVars, queueVars >>

\* The sleep of the loop ends (__main__.py lines 29 and 38) and the next
\* iteration starts.
Wake ==
  /\ loopPc \in {"sleep", "retry_sleep"}
  /\ loopPc' = "call"
  /\ UNCHANGED << outcome, health_errors, inFlight, signalled >>
  /\ UNCHANGED << cycleVars, records, syncVars, notifyVars, queueVars >>

Next == StartCycle \/ ZoneStep \/ ZoneSkipped \/ EndCycle \/ Wake

Spec == Init /\ [][Next]_vars

(***************************************************************************)
(* The cycle of a service that was given a notifier: the transition and    *)
(* critical-state bookkeeping of perform_health_check (lines 92-93).  A    *)
(* snapshot holds at most one node per address; a configured address may   *)
(* be missing from it.                                                     *)
(***************************************************************************)
\* node.is_healthy of the node at ip, as the bookkeeping records it
Health(ip, healthy) == IF ip \in healthy THEN "healthy" ELSE "unhealthy"

\* Mutant: the test 'prev_healthy is None' of line 309 left out.
NodeChangedOnFirst(prev_healthy, curr_healthy) == prev_healthy # curr_healthy

\* line 309 negated: the node's health is known and has changed
NodeChanged(prev_healthy, curr_healthy) ==
  ~(prev_healthy = "none" \/ prev_healthy = curr_healthy)

\* _check_node_transitions past its guard (lines 306-336): the events it
\* emits and _previous_node_states after it.
CheckNodeTransitions(nodes, healthy, prev) ==
  [events |->
     {[node_address |-> ip, previous_healthy |-> prev[ip],
       current_healthy |-> Health(ip, healthy)] :
        ip \in {n \in nodes : NodeChanged(prev[n], Health(n, healthy))}},
   states |->
     [ip \in ConfiguredIps |->
        IF ip \in nodes THEN Health(ip, healthy) ELSE prev[ip]]]

\* line 342: all_down
AllDown(nodes, healthy) ==
  /\ 0 < Cardinality(nodes)
  /\ Cardinality(nodes) = Cardinality(nodes \ healthy)

\* Mutant: the test of _previous_all_down (line 344) left out.
ShouldAlertEveryCycle(all_down, prev_all_down) == all_down

\* line 344
ShouldAlert(all_down, prev_all_down) == all_down /\ ~prev_all_down

\* History: sinceAlert after a cycle with the given snapshot.
SinceAlertNext(alert, nodes, healthy) ==
  IF alert THEN "stayed_down"
  ELSE IF sinceAlert = "never" THEN "never"
  ELSE IF healthy # {} THEN "healthy"
  ELSE IF nodes = {} /\ sinceAlert = "stayed_down" THEN "not_down"
  ELSE sinceAlert

\* The user counts of the snapshots of these cycles.  With load balancing
\* off users_online is not read (line 183) and the snapshot carries 0; with
\* it on a healthy node is idle or above every threshold.
NotifiedSnapshots ==
  IF config.lb_enabled
  THEN [ConfiguredIps -> {0, MaxUsersOnline}]
  ELSE {[ip \in ConfiguredIps |-> 0]}

InitNotify ==
  /\ config = CHOOSE c \in LbSettings : ~c.lb_enabled
  /\ overloaded_ips = {}
  /\ zone_id_cache = {}
  /\ records = [z \in 1..NZones |-> {}]
  /\ pos = 0
  /\ healthy_addresses = {}
  /\ users_by_ip = [ip \in ConfiguredIps |-> 0]
  /\ lastZone = 0
  /\ ovBefore = {}
  /\ effective = {}
  /\ capLog = <<>>
  /\ dnsOps = NoDnsOps
  /\ insertedOver = {}
  /\ lowSince = {}
  /\ resolution = "none"
  /\ cacheBefore = {}
  /\ failedDomains = {}
  /\ SyncIdle
  /\ notifier = TRUE
  /\ telegram_notify_node_changes \in BOOLEAN
  /\ telegram_notify_critical \in BOOLEAN
  /\ telegram_notify_errors = FALSE
  /\ telegram_notify_dns_changes = FALSE
  /\ NotifyFresh
  /\ LoopFresh
  /\ enabled = notifier
  /\ QueueFresh

\* perform_health_check up to the zone loop (lines 62-105) when the service
\* has a notifier.  nodes: the addresses of configured_nodes; h: those
\* whose node is healthy.
StartCycleNotified ==
  /\ LoopMayCall
  /\ notifier
  /\ \E nodes \in SUBSET ConfiguredIps :
       \E h \in SUBSET nodes, u \in NotifiedSnapshots :
         u \in Snapshots(h) /\
         LET tr == IF telegram_notify_node_changes
                   THEN CheckNodeTransitions(nodes, h, previous_node_states)
                   ELSE [events |-> {}, states |-> previous_node_states]
             all_down == AllDown(nodes, h)
             alert == /\ telegram_notify_critical
                      /\ ShouldAlert(all_down, previous_all_down)
         IN  /\ healthy_addresses' = h
             /\ users_by_ip' = u
             /\ lowSince' = lowSince \cup SeenLow(overloaded_ips, h, u)
             /\ previous_node_states' = tr.states
             /\ previous_all_down' = IF telegram_notify_critical
                                     THEN all_down
                                     ELSE previous_all_down
             /\ lastHealth' = IF telegram_notify_node_changes
                              THEN [ip \in ConfiguredIps |->
                                      IF ip \in nodes THEN Health(ip, h)
                                      ELSE lastHealth[ip]]
                              ELSE lastHealth
             /\ lastAllDown' = IF telegram_notify_critical
                               THEN (nodes # {} /\ h = {})
                               ELSE lastAllDown
             /\ sinceAlert' = IF telegram_notify_critical
                              THEN SinceAlertNext(alert, nodes, h)
                              ELSE sinceAlert
             /\ notified' =
                  IF ~telegram_notify_node_changes /\ ~telegram_notify_critical
                  THEN NothingNotified ELSE
                  [nodes |-> nodes,
                   transitions |-> tr.events,
                   critical |-> IF alert THEN 1 ELSE 0,
                   healthBefore |-> lastHealth,
                   downBefore |-> lastAllDown,
                   rearmedBy |-> IF ~alert THEN "none"
                                 ELSE IF sinceAlert = "never" THEN "first"
                                 ELSE sinceAlert]
  /\ pos' = 1
  /\ CallStarts
  /\ UNCHANGED << config, overloaded_ips, zone_id_cache, records, lastZone,
                  ovBefore, effective, capLog, dnsOps, insertedOver,
                  resolution, cacheBefore, failedDomains >>
  /\ UNCHANGED << syncVars, notifier, telegram_notify_node_changes,
                  telegram_notify_critical, telegram_notify_errors,
                  telegram_notify_dns_changes >>
  /\ UNCHANGED queueVars

NextNotify ==
  StartCycleNotified \/ ZoneStep \/ ZoneSkipped \/ EndCycle \/ Wake

SpecNotify == InitNotify /\ [][NextNotify]_vars

(***************************************************************************)
(* run_monitoring_loop (__main__.py 21-40) around the cycle of a service   *)
(* with a notifier and load balancing on: a cycle may raise, and a         *)
(* shutdown signal may arrive at any point.                                *)
(***************************************************************************)
InitLoop ==
  /\ config = [lb_enabled |-> TRUE, lb_max_users |-> 2, lb_recover_users |-> 1,
               lb_min_active_nodes |-> 1]
  /\ overloaded_ips = {}
  /\ zone_id_cache = {}
  /\ records = [z \in 1..NZones |-> {}]
  /\ pos = 0
  /\ healthy_addresses = {}
  /\ users_by_ip = [ip \in ConfiguredIps |-> 0]
  /\ lastZone = 0
  /\ ovBefore = {}
  /\ effective = {}
  /\ capLog = <<>>
  /\ dnsOps = NoDnsOps
  /\ insertedOver = {}
  /\ lowSince = {}
  /\ resolution = "none"
  /\ cacheBefore = {}
  /\ failedDomains = {}
  /\ SyncIdle
  /\ notifier = TRUE
  /\ telegram_notify_node_changes = TRUE
  /\ telegram_notify_critical = TRUE
  /\ telegram_notify_errors \in BOOLEAN
  /\ telegram_notify_dns_changes = FALSE
  /\ NotifyFresh
  /\ LoopFresh
  /\ enabled = notifier
  /\ QueueFresh

\* Mutant: the failed fetch taken as an empty node list, on which the
\* critical-state bookkeeping runs (lines 342-351).
AfterFailedFetchAsEmpty(prev, all_down) ==
  [states |-> prev, all_down |-> FALSE]

\* perform_health_check when line 68 raises: lines 69-107 do not run, so
\* _previous_node_states and _previous_all_down are what they were.
AfterFailedFetch(prev, all_down) ==
  [states |-> prev, all_down |-> all_down]

\* Mutant: the handler of __main__.py 35-38 leaving the loop.
LoopAfterExceptionStops == "stopped"

\* __main__.py 35-38: an Exception out of the cycle is logged and the loop
\* sleeps for the interval
LoopAfterException == "retry_sleep"

\* line 111: the handler reports the exception to the notifier
ReportsHealthCheckError == notifier /\ telegram_notify_errors

\* The node-status fetch of line 68 raises (monitor.py 72-74, client.py
\* 26-28): the handler of lines 109-115 logs, reports and re-raises, and the
\* loop catches the exception (__main__.py 35-38).
FetchFails ==
  /\ LoopMayCall
  /\ loopPc' = LoopAfterException
  /\ outcome' = "raised"
  /\ health_errors' = IF ReportsHealthCheckError THEN 1 ELSE 0
  /\ UNCHANGED << inFlight, signalled >>
  /\ LET after == AfterFailedFetch(previous_node_states, previous_all_down)
     IN  /\ previous_node_states' = after.states
         /\ previous_all_down' = after.all_down
  /\ UNCHANGED << notifier, telegram_notify_node_changes,
                  telegram_notify_critical, telegram_notify_errors,
                  telegram_notify_dns_changes, lastHealth, lastAllDown,
                  sinceAlert, notified >>
  /\ UNCHANGED << cycleVars, records, syncVars, queueVars >>

\* A shutdown signal arrives (__main__.py 48-49): the handler raises
\* GracefulExit in the running code (17-18).  perform_health_check does not
\* catch it (line 109 catches Exception), so a cycle in flight ends where
\* it is; the loop catches it and breaks (30-31).
Shutdown ==
  /\ loopPc # "stopped"
  /\ loopPc' = "stopped"
  /\ signalled' = TRUE
  /\ IF loopPc = "in_check"
     THEN /\ outcome' = "interrupted"
          /\ inFlight' = inFlight - 1
     ELSE UNCHANGED << outcome, inFlight >>
  /\ UNCHANGED health_errors
  /\ UNCHANGED << cycleVars, records, syncVars, notifyVars, queueVars >>

NextLoop ==
  \/ StartCycleNotified \/ FetchFails \/ ZoneStep \/ ZoneSkipped \/ EndCycle
  \/ Wake \/ Shutdown

SpecLoop == InitLoop /\ [][NextLoop]_vars

(***************************************************************************)
(* DNSManager.sync_dns_records followed call by call, with the outcomes    *)
(* the provider may give to each request.  One step is one iteration of a  *)
(* loop of the run or one request of a client call.  The healthy_ips       *)
(* argument is any set of configured addresses: _sync_all_zones passes the *)
(* set the filter returned, which is not restricted to the zone.           *)
(***************************************************************************)
\* Records full_domain may hold when the first run starts.
SyncStartRecords ==
  {[content |-> ip, ttl |-> 300, proxied |-> FALSE] :
      ip \in ConfiguredIps \cup {StrayIp}}

SyncZoneCfg == Zones[syncZone]

\* configured_set (line 40)
ConfiguredSet == Range(SyncZoneCfg.ips)

\* existing_by_ip[ip] (line 38)
ExistingByIp(ip) == CHOOSE r \in syncExisting : r.content = ip

\* Mutant: the create issued with the client's default ttl and proxied
\* (client.py line 60) instead of the zone's.
CreateCallDefaults(ip) ==
  [op |-> "create", content |-> ip, ttl |-> 120, proxied |-> FALSE]

\* client.create_dns_record as _add_record calls it (lines 77-79)
CreateCall(ip) ==
  [op |-> "create", content |-> ip, ttl |-> SyncZoneCfg.ttl,
   proxied |-> SyncZoneCfg.proxied]

\* client.delete_dns_record(zone_id, record["id"]) (line 101)
DeleteCall(record) ==
  [op |-> "delete", content |-> record.content, ttl |-> record.ttl,
   proxied |-> record.proxied]

\* DNSError(ip_address=ip, action=...) (lines 93-95, 115-117)
DnsErrorEvent(action, ip) == [action |-> action, ip_address |-> ip]

\* Mutant: the test of line 49 left out.
NeedsCreateAlways(ip) == TRUE

\* line 49
NeedsCreate(ip) == ip \notin ExistingIps(syncExisting)

\* Mutant: the loop of lines 54-57 removing nothing.
NeedsDeleteUnhealthyNever(ip) == FALSE

\* line 55
NeedsDeleteUnhealthy(ip) == ip \in ExistingIps(syncExisting)

\* Mutant: the test of line 61 left out.
NeedsDeleteUnconfiguredAll(ip) == TRUE

\* line 61
NeedsDeleteUnconfigured(ip) == ip \notin ConfiguredSet

\* The loop while the cycle that makes the runs is in flight (__main__.py
\* line 26).
LoopInCheck ==
  /\ loopPc = "in_check"
  /\ outcome = "none"
  /\ health_errors = 0
  /\ inFlight = 1
  /\ signalled = FALSE

InitSync ==
  /\ config = CHOOSE c \in LbSettings : ~c.lb_enabled
  /\ overloaded_ips = {}
  /\ zone_id_cache = {}
  /\ pos = 0
  /\ healthy_addresses = {}
  /\ users_by_ip = [ip \in ConfiguredIps |-> 0]
  /\ lastZone = 0
  /\ ovBefore = {}
  /\ effective = {}
  /\ capLog = <<>>
  /\ dnsOps = NoDnsOps
  /\ insertedOver = {}
  /\ lowSince = {}
  /\ resolution = "none"
  /\ cacheBefore = {}
  /\ failedDomains = {}
  /\ syncZone \in 1..NZones
  /\ records \in [1..NZones -> SUBSET SyncStartRecords]
  /\ \A z \in 1..NZones : z # syncZone => records[z] = {}
  /\ syncHealthy \in SUBSET ConfiguredIps
  /\ notify_errors \in BOOLEAN
  /\ syncPc = "idle"
  /\ syncExisting = {}
  /\ pending = {}
  /\ cur = "none"
  /\ attempt = 0
  /\ calls = EmptyBag
  /\ rejections = EmptyBag
  /\ dns_errors = EmptyBag
  /\ run = 0
  /\ errFree = TRUE
  /\ RetryIdle
  /\ notifier = notify_errors
  /\ telegram_notify_node_changes = FALSE
  /\ telegram_notify_critical = FALSE
  /\ telegram_notify_errors = notify_errors
  /\ telegram_notify_dns_changes = FALSE
  /\ NotifyFresh
  /\ LoopInCheck
  /\ enabled = notifier
  /\ QueueFresh

\* A run starts (lines 24-46): the records are fetched and the add loop is
\* entered over healthy_configured_ips.
SyncBegin ==
  /\ syncPc \in {"idle", "done"}
  /\ run < MaxRuns
  /\ run' = run + 1
  /\ syncExisting' = records[syncZone]
  /\ pending' = ConfiguredSet \cap syncHealthy
  /\ syncPc' = "add"
  /\ calls' = EmptyBag
  /\ rejections' = EmptyBag
  /\ dns_errors' = EmptyBag
  /\ UNCHANGED << cycleVars, notifyVars, loopVars, queueVars, retryVars, records, syncZone, syncHealthy, notify_errors,
                  cur, attempt, errFree >>

\* One iteration of the add loop (lines 48-51): the create call is issued
\* when the address has no record.
AddNext ==
  /\ syncPc = "add"
  /\ cur = "none"
  /\ \E ip \in pending :
       /\ pending' = pending \ {ip}
       /\ IF NeedsCreate(ip)
          THEN /\ cur' = ip
               /\ calls' = calls (+) SetToBag({CreateCall(ip)})
          ELSE UNCHANGED << cur, calls >>
  /\ attempt' = 0
  /\ UNCHANGED << cycleVars, notifyVars, loopVars, queueVars, retryVars, records, syncPc, syncZone, syncHealthy,
                  notify_errors, syncExisting, rejections, dns_errors, run,
                  errFree >>

\* The create request succeeds (client.py 64-77, dns_manager.py 80-87).
CreateSucceeds ==
  /\ syncPc = "add"
  /\ cur # "none"
  /\ records' = [records EXCEPT ![syncZone] =
                   @ \cup {[content |-> cur, ttl |-> SyncZoneCfg.ttl,
                            proxied |-> SyncZoneCfg.proxied]}]
  /\ cur' = "none"
  /\ UNCHANGED << cycleVars, notifyVars, loopVars, queueVars, retryVars, syncPc, syncZone, syncHealthy, notify_errors,
                  syncExisting, pending, attempt, calls, rejections,
                  dns_errors, run, errFree >>

\* Mutant: the client error handled like any other failure (client.py
\* 83-85), the request sent again.
AfterClientErrorRetries(ip) == ip

\* client.py 79-82 and dns_manager.py 88-96: the client error leaves
\* create_dns_record and _add_record returns; no call is in progress.
AfterClientError(ip) == "none"

\* The provider answers the create request with a client error: the client
\* re-raises (client.py 79-82), _add_record reports it and returns False
\* (dns_manager.py 88-96), and the loop goes on.
CreateRejected ==
  /\ syncPc = "add"
  /\ cur # "none"
  /\ rejections' = rejections (+) SetToBag({DnsErrorEvent("add", cur)})
  /\ dns_errors' = IF notify_errors
                    THEN dns_errors (+) SetToBag({DnsErrorEvent("add", cur)})
                    ELSE dns_errors
  /\ cur' = AfterClientError(cur)
  /\ errFree' = FALSE
  /\ UNCHANGED << cycleVars, notifyVars, loopVars, queueVars, retryVars, records, syncPc, syncZone, syncHealthy,
                  notify_errors, syncExisting, pending, attempt, calls, run >>

\* The create request fails in another way: the client sleeps and tries
\* again (client.py 83-85).
CreateRetried ==
  /\ syncPc = "add"
  /\ cur # "none"
  /\ attempt < MaxAttempt
  /\ attempt' = attempt + 1
  /\ errFree' = FALSE
  /\ UNCHANGED << cycleVars, notifyVars, loopVars, queueVars, retryVars, records, syncPc, syncZone, syncHealthy,
                  notify_errors, syncExisting, pending, cur, calls,
                  rejections, dns_errors, run >>

\* The add loop is over; the loop over unhealthy_ips starts (line 54).
AddDone ==
  /\ syncPc = "add"
  /\ cur = "none"
  /\ pending = {}
  /\ syncPc' = "remove_unhealthy"
  /\ pending' = ConfiguredSet \ syncHealthy
  /\ UNCHANGED << cycleVars, notifyVars, loopVars, queueVars, retryVars, records, syncZone, syncHealthy, notify_errors,
                  syncExisting, cur, attempt, calls, rejections, dns_errors,
                  run, errFree >>

\* One iteration of a remove loop (lines 54-57 and 60-63): the delete call
\* is issued for the record fetched at line 36.
RemoveNext ==
  /\ syncPc \in {"remove_unhealthy", "remove_unconfigured"}
  /\ cur = "none"
  /\ \E ip \in pending :
       /\ pending' = pending \ {ip}
       /\ IF \/ syncPc = "remove_unhealthy" /\ NeedsDeleteUnhealthy(ip)
             \/ syncPc = "remove_unconfigured" /\ NeedsDeleteUnconfigured(ip)
          THEN /\ cur' = ip
               /\ calls' = calls (+) SetToBag({DeleteCall(ExistingByIp(ip))})
          ELSE UNCHANGED << cur, calls >>
  /\ attempt' = 0
  /\ UNCHANGED << cycleVars, notifyVars, loopVars, queueVars, retryVars, records, syncPc, syncZone, syncHealthy,
                  notify_errors, syncExisting, rejections, dns_errors, run,
                  errFree >>

\* The delete request succeeds (client.py 128-132, dns_manager.py 102-109).
DeleteSucceeds ==
  /\ syncPc \in {"remove_unhealthy", "remove_unconfigured"}
  /\ cur # "none"
  /\ records' = [records EXCEPT ![syncZone] = @ \ {ExistingByIp(cur)}]
  /\ cur' = "none"
  /\ UNCHANGED << cycleVars, notifyVars, loopVars, queueVars, retryVars, syncPc, syncZone, syncHealthy, notify_errors,
                  syncExisting, pending, attempt, calls, rejections,
                  dns_errors, run, errFree >>

\* The delete request fails, with a client error or in another way: the
\* client sleeps and tries again whatever the error (client.py 134-137), so
\* the handler of dns_manager.py 110-118 is never entered.
DeleteFails ==
  /\ syncPc \in {"remove_unhealthy", "remove_unconfigured"}
  /\ cur # "none"
  /\ attempt < MaxAttempt
  /\ attempt' = attempt + 1
  /\ \E client_error \in BOOLEAN :
       rejections' = IF client_error
                     THEN rejections (+) SetToBag({DnsErrorEvent("remove", cur)})
                     ELSE rejections
  /\ errFree' = FALSE
  /\ UNCHANGED << cycleVars, notifyVars, loopVars, queueVars, retryVars, records, syncPc, syncZone, syncHealthy,
                  notify_errors, syncExisting, pending, cur, calls,
                  dns_errors, run >>

\* The loop over unhealthy_ips is over; the loop over existing_by_ip starts
\* (line 60).
RemoveUnhealthyDone ==
  /\ syncPc = "remove_unhealthy"
  /\ cur = "none"
  /\ pending = {}
  /\ syncPc' = "remove_unconfigured"
  /\ pending' = ExistingIps(syncExisting)
  /\ UNCHANGED << cycleVars, notifyVars, loopVars, queueVars, retryVars, records, syncZone, syncHealthy, notify_errors,
                  syncExisting, cur, attempt, calls, rejections, dns_errors,
                  run, errFree >>

\* The run returns (lines 65-71).
SyncDone ==
  /\ syncPc = "remove_unconfigured"
  /\ cur = "none"
  /\ pending = {}
  /\ syncPc' = "done"
  /\ UNCHANGED << cycleVars, notifyVars, loopVars, queueVars, retryVars, records, syncZone, syncHealthy, notify_errors,
                  syncExisting, pending, cur, attempt, calls, rejections,
                  dns_errors, run, errFree >>

\* A shutdown signal arrives during the run (__main__.py 48-49): the handler
\* raises GracefulExit in the running code (17-18).  Neither the client's
\* retry loops (client.py 79, 134: except Exception) nor DNSManager (88,
\* 110) nor perform_health_check (109) catch it, since GracefulExit is a
\* SystemExit; the run ends where it is and the loop breaks (30-31).
SyncInterrupted ==
  /\ syncPc \in {"add", "remove_unhealthy", "remove_unconfigured"}
  /\ syncPc' = "interrupted"
  /\ loopPc' = "stopped"
  /\ outcome' = "interrupted"
  /\ inFlight' = inFlight - 1
  /\ signalled' = TRUE
  /\ UNCHANGED health_errors
  /\ UNCHANGED << cycleVars, notifyVars, queueVars, retryVars, records, syncZone, syncHealthy,
                  notify_errors, syncExisting, pending, cur, attempt, calls,
                  rejections, dns_errors, run, errFree >>

NextSync ==
  \/ SyncBegin \/ AddNext \/ CreateSucceeds \/ CreateRejected \/ CreateRetried
  \/ AddDone \/ RemoveNext \/ DeleteSucceeds \/ DeleteFails
  \/ RemoveUnhealthyDone \/ SyncDone \/ SyncInterrupted

SpecSync == InitSync /\ [][NextSync]_vars

(***************************************************************************)
(* The retry loops of CloudflareClient (client.py 29-163): one call at a    *)
(* time, each request of which returns or fails.                           *)
(***************************************************************************)
ClientMethods ==
  {"get_dns_records", "create_dns_record", "update_dns_record",
   "delete_dns_record", "get_zone_id_by_domain"}

InitRetry ==
  /\ config = CHOOSE c \in LbSettings : ~c.lb_enabled
  /\ overloaded_ips = {}
  /\ zone_id_cache = {}
  /\ records = [z \in 1..NZones |-> {}]
  /\ pos = 0
  /\ healthy_addresses = {}
  /\ users_by_ip = [ip \in ConfiguredIps |-> 0]
  /\ lastZone = 0
  /\ ovBefore = {}
  /\ effective = {}
  /\ capLog = <<>>
  /\ dnsOps = NoDnsOps
  /\ insertedOver = {}
  /\ lowSince = {}
  /\ resolution = "none"
  /\ cacheBefore = {}
  /\ failedDomains = {}
  /\ syncPc = "idle"
  /\ syncZone = 0
  /\ syncHealthy = {}
  /\ notify_errors = FALSE
  /\ syncExisting = {}
  /\ pending = {}
  /\ cur = "none"
  /\ attempt = 0
  /\ calls = EmptyBag
  /\ rejections = EmptyBag
  /\ dns_errors = EmptyBag
  /\ run = 0
  /\ errFree = TRUE
  /\ retry_delay \in 1..MaxRetryDelay
  /\ callOp \in ClientMethods
  /\ callAttempt = 0
  /\ lastDelay = 0
  /\ lastFailure = "none"
  /\ callOutcome = "pending"
  /\ notifier = FALSE
  /\ telegram_notify_node_changes = FALSE
  /\ telegram_notify_critical = FALSE
  /\ telegram_notify_errors = FALSE
  /\ telegram_notify_dns_changes = FALSE
  /\ NotifyFresh
  /\ LoopFresh
  /\ enabled = FALSE
  /\ QueueFresh

\* Mutant: the delay without its cap.
RetryDelayUncapped(n) == retry_delay * n

\* _retry_delay (client.py 25-27): the delay slept after the n-th failed
\* request of a call
RetryDelay(n) ==
  IF retry_delay * n < RetryDelayCap THEN retry_delay * n ELSE RetryDelayCap

\* client.py 79-82: create_dns_record re-raises an exception that carries a
\* 4xx status; the other methods (53-57, 119-122, 134-137, 160-163) have no
\* such test.
ReRaised(method, failure) ==
  method = "create_dns_record" /\ failure = "client_error"

\* The request succeeds and the call returns (lines 47-52, 77, 130-132).
RequestReturns ==
  /\ callOutcome = "pending"
  /\ callOutcome' = "returned"
  /\ UNCHANGED << retry_delay, callOp, callAttempt, lastDelay, lastFailure >>
  /\ UNCHANGED << syncPc, syncZone, syncHealthy, notify_errors, syncExisting,
                  pending, cur, attempt, calls, rejections, dns_errors, run,
                  errFree >>
  /\ UNCHANGED << cycleVars, records, notifyVars, loopVars, queueVars >>

\* The request fails with the given failure: the exception is re-raised, or
\* attempt is incremented and the call sleeps before the next request
\* (lines 53-57, 79-85, 119-122, 134-137, 160-163).  Attempts beyond
\* MaxRetries are not counted: the delay has reached its cap by then.
RequestFailsWith(failure) ==
  /\ callOutcome = "pending"
  /\ lastFailure' = failure
  /\ IF ReRaised(callOp, failure)
     THEN /\ callOutcome' = "raised"
          /\ UNCHANGED << callAttempt, lastDelay >>
     ELSE LET n == IF callAttempt < MaxRetries THEN callAttempt + 1
                   ELSE MaxRetries
          IN  /\ callAttempt' = n
              /\ lastDelay' = RetryDelay(n)
              /\ callOutcome' = "retry_delay"
  /\ UNCHANGED << retry_delay, callOp >>
  /\ UNCHANGED << syncPc, syncZone, syncHealthy, notify_errors, syncExisting,
                  pending, cur, attempt, calls, rejections, dns_errors, run,
                  errFree >>
  /\ UNCHANGED << cycleVars, records, notifyVars, loopVars, queueVars >>

\* The request fails: a transient failure or a client error (4xx).
RequestFails ==
  \E failure \in {"transient", "client_error"} : RequestFailsWith(failure)

\* The sleep of _retry_delay ends (lines 25-27) and the while True loop of
\* the method sends the next request.
RetryDelayOver ==
  /\ callOutcome = "retry_delay"
  /\ callOutcome' = "pending"
  /\ UNCHANGED << retry_delay, callOp, callAttempt, lastDelay, lastFailure >>
  /\ UNCHANGED << syncPc, syncZone, syncHealthy, notify_errors, syncExisting,
                  pending, cur, attempt, calls, rejections, dns_errors, run,
                  errFree >>
  /\ UNCHANGED << cycleVars, records, notifyVars, loopVars, queueVars >>

\* The caller makes its next call.
NextCall ==
  /\ callOutcome \in {"returned", "raised"}
  /\ callOutcome' = "pending"
  /\ callOp' \in ClientMethods
  /\ callAttempt' = 0
  /\ lastDelay' = 0
  /\ lastFailure' = "none"
  /\ UNCHANGED retry_delay
  /\ UNCHANGED << syncPc, syncZone, syncHealthy, notify_errors, syncExisting,
                  pending, cur, attempt, calls, rejections, dns_errors, run,
                  errFree >>
  /\ UNCHANGED << cycleVars, records, notifyVars, loopVars, queueVars >>

NextRetry == RequestReturns \/ RequestFails \/ RetryDelayOver \/ NextCall

SpecRetry == InitRetry /\ [][NextRetry]_vars

\* The provider answers a request with a success or with a client error.
RequestAnswered == RequestReturns \/ RequestFailsWith("client_error")

\* The calls of the client when every sleep ends and the provider, asked
\* again and again, eventually answers with a success or a client error
\* instead of failing transiently for ever.
SpecRetryFair ==
  SpecRetry /\ WF_vars(RetryDelayOver) /\ SF_vars(RequestAnswered)

(***************************************************************************)
(* TelegramNotifier: the bounded queue, the worker task and stop(), with   *)
(* main starting the notifier, handing it messages and stopping it         *)
(* (__main__.py 82-96).  The monitoring cycle is not followed here: a      *)
(* message is any notify_* call of the process.                            *)
(***************************************************************************)
InitQueue ==
  /\ config = CHOOSE c \in LbSettings : ~c.lb_enabled
  /\ overloaded_ips = {}
  /\ zone_id_cache = {}
  /\ records = [z \in 1..NZones |-> {}]
  /\ pos = 0
  /\ healthy_addresses = {}
  /\ users_by_ip = [ip \in ConfiguredIps |-> 0]
  /\ lastZone = 0
  /\ ovBefore = {}
  /\ effective = {}
  /\ capLog = <<>>
  /\ dnsOps = NoDnsOps
  /\ insertedOver = {}
  /\ lowSince = {}
  /\ resolution = "none"
  /\ cacheBefore = {}
  /\ failedDomains = {}
  /\ SyncIdle
  /\ notifier = TRUE
  /\ telegram_notify_node_changes = FALSE
  /\ telegram_notify_critical = FALSE
  /\ telegram_notify_errors = FALSE
  /\ telegram_notify_dns_changes = FALSE
  /\ NotifyFresh
  /\ LoopFresh
  /\ enabled \in BOOLEAN
  /\ QueueFresh

\* Mutant: a full queue making room by dropping its oldest message.
PutNowaitEvicts(q, message) ==
  IF Len(q) < queue_size
  THEN [queue |-> Append(q, message), full |-> FALSE, raised |-> FALSE]
  ELSE [queue |-> Append(Tail(q), message), full |-> TRUE, raised |-> FALSE]

\* Mutant: QueueFull not caught by _enqueue.
PutNowaitRaises(q, message) ==
  IF Len(q) < queue_size
  THEN [queue |-> Append(q, message), full |-> FALSE, raised |-> FALSE]
  ELSE [queue |-> q, full |-> TRUE, raised |-> TRUE]

\* _queue.put_nowait(message) inside _enqueue (lines 132-135): a full queue
\* raises QueueFull, which _enqueue catches, and the message is dropped.
\* raised: an exception leaves _enqueue.
PutNowait(q, message) ==
  IF Len(q) < queue_size
  THEN [queue |-> Append(q, message), full |-> FALSE, raised |-> FALSE]
  ELSE [queue |-> q, full |-> TRUE, raised |-> FALSE]

\* Mutant: a failed send given up, the worker moving on to the next message.
AfterSendFailureSkips(message, failures) ==
  [held |-> 0, send_attempt |-> 0, workerPc |-> "pause"]

\* _send_with_retry after a failed attempt (lines 114-126): the loop of line
\* 106 sleeps and sends the same message again.
AfterSendFailure(message, failures) ==
  [held |-> message, send_attempt |-> failures + 1, workerPc |-> "send"]

\* Mutant: the cancellation caught by the handlers of _send_with_retry
\* (lines 114-126), which sleep and send again.
CancelledSwallowed(pc) ==
  IF pc \in {"none", "exited", "send"} THEN pc ELSE "cancelled"

\* The worker task after _worker_task.cancel() (lines 75-80, 99-100).
Cancelled(pc) == IF pc \in {"none", "exited"} THEN pc ELSE "cancelled"

\* notifier.start() (lines 53-59, __main__.py 83).
NotifierStart ==
  /\ mainPc = "start"
  /\ mainPc' = "run"
  /\ IF enabled
     THEN /\ running' = TRUE
          /\ workerPc' = "get"
     ELSE UNCHANGED << running, workerPc >>
  /\ UNCHANGED << enabled, queue, held, send_attempt, sent, accepted, dropped,
                  retried, nextId, queuedAtStop, graceElapsed >>
  /\ UNCHANGED << cycleVars, records, syncVars, notifyVars, loopVars >>

\* A notify_* call (lines 137-177) and its _enqueue (128-135).
Enqueue ==
  /\ mainPc = "run"
  /\ nextId <= MaxMessages
  /\ nextId' = nextId + 1
  /\ IF enabled
     THEN LET put == PutNowait(queue, nextId)
          IN  /\ queue' = put.queue
              /\ accepted' = IF put.full THEN accepted
                              ELSE Append(accepted, nextId)
              /\ dropped' = IF put.full THEN dropped \cup {nextId}
                             ELSE dropped
     ELSE UNCHANGED << queue, accepted, dropped >>
  /\ UNCHANGED << enabled, running, mainPc, workerPc, held, send_attempt, sent,
                  retried, queuedAtStop, graceElapsed >>
  /\ UNCHANGED << cycleVars, records, syncVars, notifyVars, loopVars >>

\* The worker's _queue.get() returns a message (line 91).
WorkerGet ==
  /\ workerPc = "get"
  /\ queue # <<>>
  /\ held' = Head(queue)
  /\ queue' = Tail(queue)
  /\ send_attempt' = 0
  /\ workerPc' = "send"
  /\ UNCHANGED << enabled, running, mainPc, sent, accepted, dropped, retried,
                  nextId, queuedAtStop, graceElapsed >>
  /\ UNCHANGED << cycleVars, records, syncVars, notifyVars, loopVars >>

\* The get times out on an empty queue (lines 92-93) and the loop condition
\* of line 88 is tested.
WorkerGetTimesOut ==
  /\ workerPc = "get"
  /\ queue = <<>>
  /\ workerPc' = IF running THEN "get" ELSE "exited"
  /\ UNCHANGED << enabled, queue, running, mainPc, held, send_attempt, sent,
                  accepted, dropped, retried, nextId, queuedAtStop,
                  graceElapsed >>
  /\ UNCHANGED << cycleVars, records, syncVars, notifyVars, loopVars >>

\* send_message returns (lines 108-113); task_done and the sleep of line 97.
SendSucceeds ==
  /\ workerPc = "send"
  /\ sent' = Append(sent, held)
  /\ held' = 0
  /\ send_attempt' = 0
  /\ workerPc' = "pause"
  /\ UNCHANGED << enabled, queue, running, mainPc, accepted, dropped, retried,
                  nextId, queuedAtStop, graceElapsed >>
  /\ UNCHANGED << cycleVars, records, syncVars, notifyVars, loopVars >>

\* send_message raises (lines 114-126).
SendFails ==
  /\ workerPc = "send"
  /\ send_attempt < MaxAttempt
  /\ LET after == AfterSendFailure(held, send_attempt)
     IN  /\ held' = after.held
         /\ send_attempt' = after.send_attempt
         /\ workerPc' = after.workerPc
  /\ retried' = retried \cup {held}
  /\ UNCHANGED << enabled, queue, running, mainPc, sent, accepted, dropped,
                  nextId, queuedAtStop, graceElapsed >>
  /\ UNCHANGED << cycleVars, records, syncVars, notifyVars, loopVars >>

\* The sleep of line 97 ends and the loop condition of line 88 is tested.
WorkerResumes ==
  /\ workerPc = "pause"
  /\ workerPc' = IF running THEN "get" ELSE "exited"
  /\ UNCHANGED << enabled, queue, running, mainPc, held, send_attempt, sent,
                  accepted, dropped, retried, nextId, queuedAtStop,
                  graceElapsed >>
  /\ UNCHANGED << cycleVars, records, syncVars, notifyVars, loopVars >>

\* The finally block of main (__main__.py 94-96): notify_service_stopped(),
\* then stop() up to its first await (lines 61-68).
NotifierStop ==
  /\ mainPc = "run"
  /\ nextId' = nextId + 1
  /\ LET put == IF enabled THEN PutNowait(queue, nextId)
                ELSE [queue |-> queue, full |-> TRUE, raised |-> FALSE]
     IN  /\ queue' = put.queue
         /\ accepted' = IF put.full THEN accepted ELSE Append(accepted, nextId)
         /\ dropped' = IF enabled /\ put.full THEN dropped \cup {nextId}
                        ELSE dropped
         /\ queuedAtStop' = IF running THEN put.queue ELSE queuedAtStop
  /\ mainPc' = IF running THEN "grace" ELSE "stopped"
  /\ running' = FALSE
  /\ UNCHANGED << enabled, workerPc, held, send_attempt, sent, retried,
                  graceElapsed >>
  /\ UNCHANGED << cycleVars, records, syncVars, notifyVars, loopVars >>

\* stop() finds the queue empty (line 69) and cancels the worker (75-80).
StopQueueEmpty ==
  /\ mainPc = "grace"
  /\ queue = <<>>
  /\ mainPc' = "stopped"
  /\ workerPc' = Cancelled(workerPc)
  /\ UNCHANGED << enabled, queue, running, held, send_attempt, sent, accepted,
                  dropped, retried, nextId, queuedAtStop, graceElapsed >>
  /\ UNCHANGED << cycleVars, records, syncVars, notifyVars, loopVars >>

\* The 5 seconds of line 68 are over with messages still queued (line 69);
\* stop() cancels the worker (75-80).
StopGraceElapsed ==
  /\ mainPc = "grace"
  /\ queue # <<>>
  /\ mainPc' = "stopped"
  /\ graceElapsed' = TRUE
  /\ workerPc' = Cancelled(workerPc)
  /\ UNCHANGED << enabled, queue, running, held, send_attempt, sent, accepted,
                  dropped, retried, nextId, queuedAtStop >>
  /\ UNCHANGED << cycleVars, records, syncVars, notifyVars, loopVars >>

NextQueue ==
  \/ NotifierStart \/ Enqueue \/ WorkerGet \/ WorkerGetTimesOut \/ SendSucceeds
  \/ SendFails \/ WorkerResumes \/ NotifierStop \/ StopQueueEmpty
  \/ StopGraceElapsed

SpecQueue == InitQueue /\ [][NextQueue]_vars

\* stop() leaves its wait loop.
StopLeavesWait == StopQueueEmpty \/ StopGraceElapsed

\* The notifier when the event loop keeps running stop(): its wait loop
\* wakes every 0.1 s (line 70) and ends when the queue is empty or the
\* 5 s timer is done (lines 68-69).  Nothing is assumed about the worker
\* or about the sends.
SpecQueueFair == SpecQueue /\ WF_vars(StopLeavesWait)

(***************************************************************************)
(* The zone loop with the notifier's queue followed: the capacity filter   *)
(* and DNSManager hand their events to the notifier while they work.  The  *)
(* service has no notifier, a disabled one, or an enabled one whose queue  *)
(* is empty or full at the start; nothing is delivered, so a queue that    *)
(* has filled stays full.  A message is its kind.                          *)
(***************************************************************************)
InitGate ==
  /\ config = [lb_enabled |-> TRUE, lb_max_users |-> 2, lb_recover_users |-> 1,
               lb_min_active_nodes |-> 1]
  /\ overloaded_ips = {}
  /\ zone_id_cache = {}
  /\ records = [z \in 1..NZones |-> {}]
  /\ pos = 0
  /\ healthy_addresses = {}
  /\ users_by_ip = [ip \in ConfiguredIps |-> 0]
  /\ lastZone = 0
  /\ ovBefore = {}
  /\ effective = {}
  /\ capLog = <<>>
  /\ dnsOps = NoDnsOps
  /\ insertedOver = {}
  /\ lowSince = {}
  /\ resolution = "none"
  /\ cacheBefore = {}
  /\ failedDomains = {}
  /\ SyncIdle
  /\ notifier \in BOOLEAN
  /\ telegram_notify_node_changes = FALSE
  /\ telegram_notify_critical = FALSE
  /\ telegram_notify_errors = FALSE
  /\ telegram_notify_dns_changes = notifier
  /\ NotifyFresh
  /\ LoopFresh
  /\ enabled \in BOOLEAN
  /\ enabled => notifier
  /\ queue \in {<<>>, [i \in 1..queue_size |-> "earlier"]}
  /\ queue # <<>> => enabled
  /\ running = enabled
  /\ mainPc = "run"
  /\ workerPc = IF enabled THEN "send" ELSE "none"
  /\ held = 0
  /\ send_attempt = 0
  /\ sent = <<>>
  /\ accepted = <<>>
  /\ dropped = {}
  /\ retried = {}
  /\ nextId = 1
  /\ queuedAtStop = <<>>
  /\ graceElapsed = FALSE

\* The notify_* calls for the given messages, in order (notifier.py
\* 137-177): the queue after the first n of them, the kinds dropped, and
\* whether a call raised, which ends the sequence.
RECURSIVE EnqueueAll(_, _, _)
EnqueueAll(q, messages, n) ==
  IF n = 0 THEN [queue |-> q, dropped |-> {}, raised |-> FALSE, calls |-> 0]
  ELSE LET before == EnqueueAll(q, messages, n - 1)
           put == PutNowait(before.queue, messages[n])
       IN  IF before.raised THEN before
           ELSE IF ~enabled THEN [before EXCEPT !.calls = n]
           ELSE [queue   |-> put.queue,
                 dropped |-> IF put.full THEN before.dropped \cup {messages[n]}
                             ELSE before.dropped,
                 raised  |-> put.raised,
                 calls   |-> n]

\* notify_capacity_change for each transition the filter reports, as it
\* reports it (monitoring_service.py 232-247, 264-278).
CapacityMessages(log) ==
  IF notifier THEN [i \in 1..Len(log) |-> "capacity_change"] ELSE <<>>

\* notify_dns_change for each create and delete of the run
\* (dns_manager.py 81-87, 103-109).
DnsChangeMessages(ops) ==
  IF notifier /\ telegram_notify_dns_changes
  THEN [i \in 1..(Cardinality(ops.created) + Cardinality(ops.deleted)) |->
          "dns_change"]
  ELSE <<>>

\* _overloaded_ips after the first n transitions of the log were applied
\* (lines 229, 261).
RECURSIVE OverloadedAfter(_, _, _)
OverloadedAfter(ov, log, n) ==
  IF n = 0 THEN ov
  ELSE LET before == OverloadedAfter(ov, log, n - 1)
       IN  IF log[n][1] = "throttled" THEN before \cup {log[n][2]}
           ELSE before \ {log[n][2]}

\* One iteration of the zone loop whose zone id resolves (lines 134-162),
\* with the notifier calls made on the way.  An exception out of a notifier
\* call made by the filter leaves the filter, the zone loop and the cycle
\* (lines 109-115) and reaches the loop (__main__.py 35-38); one out of a
\* call made by DNSManager is caught there (dns_manager.py 88, 110) after the
\* create or delete it follows.
GatedZoneStep ==
  /\ pos \in 1..NZones
  /\ loopPc = "in_check"
  /\ \E known \in ProviderKnows(Zones[pos].domain) :
       LET got == GetZoneId(Zones[pos].domain, known)
       IN  /\ got.found
           /\ zone_id_cache' = got.cache
  /\ LET zone == Zones[pos] IN
     \E order \in Orders(AfterThrottle(zone.ips, healthy_addresses, users_by_ip,
                                        overloaded_ips).ov) :
       LET res  == ApplyCapacityFiltering(zone.ips, healthy_addresses,
                                          users_by_ip, overloaded_ips, order)
           cap  == CapacityMessages(res.log)
           enq1 == EnqueueAll(queue, cap, Len(cap))
           sync == SyncDnsRecords(records[pos], zone.ips, res.eff, zone.ttl,
                                  zone.proxied)
           ops  == [created |-> sync.created, deleted |-> sync.deleted]
           dns  == DnsChangeMessages(ops)
           enq2 == EnqueueAll(enq1.queue, dns, Len(dns))
       IN  IF enq1.raised
           THEN /\ overloaded_ips' =
                     OverloadedAfter(overloaded_ips, res.log, enq1.calls)
                /\ queue' = enq1.queue
                /\ dropped' = dropped \cup enq1.dropped
                /\ pos' = 0
                /\ loopPc' = LoopAfterException
                /\ outcome' = "raised"
                /\ health_errors' = IF ReportsHealthCheckError THEN 1 ELSE 0
                /\ inFlight' = inFlight - 1
                /\ healthy_addresses' = {}
                /\ users_by_ip' = [ip \in ConfiguredIps |-> 0]
                /\ lastZone' = 0
                /\ ovBefore' = {}
                /\ effective' = {}
                /\ capLog' = <<>>
                /\ dnsOps' = NoDnsOps
                /\ resolution' = "none"
                /\ cacheBefore' = {}
                /\ UNCHANGED << records, insertedOver, lowSince >>
           ELSE /\ overloaded_ips' = res.ov
                /\ effective' = res.eff
                /\ capLog' = res.log
                /\ records' = [records EXCEPT ![pos] = sync.records]
                /\ dnsOps' = ops
                /\ insertedOver' = (insertedOver \cap res.ov)
                     \cup SeenOver(res.ov \ overloaded_ips, healthy_addresses,
                                   users_by_ip)
                /\ lowSince' = lowSince \cap (res.ov \cap overloaded_ips)
                /\ queue' = enq2.queue
                /\ dropped' = dropped \cup enq1.dropped \cup enq2.dropped
                /\ pos' = pos + 1
                /\ lastZone' = pos
                /\ ovBefore' = overloaded_ips
                /\ resolution' = IF Zones[pos].domain \in zone_id_cache
                                  THEN "cached" ELSE "resolved"
                /\ cacheBefore' = zone_id_cache
                /\ UNCHANGED << healthy_addresses, users_by_ip, loopVars >>
  /\ UNCHANGED << config, failedDomains >>
  /\ UNCHANGED << enabled, running, mainPc, workerPc, held, send_attempt, sent,
                  accepted, retried, nextId, queuedAtStop, graceElapsed >>
  /\ UNCHANGED signalled
  /\ UNCHANGED << syncVars, notifyVars >>

NextGate ==
  \/ StartCycle \/ StartCycleNotified \/ GatedZoneStep \/ ZoneSkipped
  \/ EndCycle \/ Wake

SpecGate == InitGate /\ [][NextGate]_vars

(***************************************************************************)
(* Properties.  They are stated over the latest filter call of the cycle:  *)
(* its zone (lastZone), the snapshot it was given, the overload set before *)
(* (ovBefore) and after (overloaded_ips), the set it returned (effective)  *)
(* and the transitions it reported (capLog).                               *)
(***************************************************************************)
Called == lastZone # 0

CallIps == Range(Zones[lastZone].ips)

Min(a, b) == IF a <= b THEN a ELSE b

\* Number of entries of the sequence log equal to e.
Count(log, e) == Cardinality({i \in 1..Len(log) : log[i] = e})

\* C1: after every filter call for a zone, the returned set holds at least
\* min(min_active_nodes, number of the zone's healthy configured addresses)
\* of the zone's configured addresses.
C1_MinActiveFloor ==
  Called =>
    Cardinality(CallIps \cap effective) >=
      Min(config.lb_min_active_nodes, Cardinality(CallIps \cap healthy_addresses))

\* C2 as stated: after the sync that follows a filter call, the contents of
\* the zone's A records equal the effective set that was passed in.
C2_RecordsEqualEffective ==
  Called => ExistingIps(records[lastZone]) = effective

\* C2 as amended: after the sync, the contents of the zone's A records equal
\* the addresses of the passed effective set that the zone configures.
C2_RecordsEqualEffectiveOfZone ==
  Called => ExistingIps(records[lastZone]) = effective \cap CallIps

\* C2 witness: a sync that created a record, deleted a stray record and
\* was passed an address of another zone.
C2_Witness ==
  /\ Called
  /\ dnsOps.created # {}
  /\ StrayIp \in dnsOps.deleted
  /\ effective \ CallIps # {}
  /\ ExistingIps(records[lastZone]) = effective \cap CallIps

\* C3: an address throttled before a filter call for its zone, whose user
\* count in that call lies in [recover_users, max_users], is not in the
\* returned set and is still in the overload set after the call.
C3_HysteresisBand ==
  Called =>
    \A ip \in ovBefore \cap CallIps :
      (/\ config.lb_recover_users <= users_by_ip[ip]
       /\ users_by_ip[ip] <= config.lb_max_users)
      => (ip \notin effective /\ ip \in overloaded_ips)

\* C3 witness: a call that found a healthy throttled address of its zone
\* inside the band, at the recovery threshold exactly.
C3_Witness ==
  /\ Called
  /\ \E ip \in ovBefore \cap CallIps \cap healthy_addresses :
       /\ users_by_ip[ip] = config.lb_recover_users
       /\ users_by_ip[ip] <= config.lb_max_users
       /\ ip \notin effective
       /\ ip \in overloaded_ips

\* The healthy addresses of the call's zone.
CallHealthy == CallIps \cap healthy_addresses

\* Position of ip in the configured list of the call's zone.
IndexInZone(ip) ==
  CHOOSE i \in 1..Len(Zones[lastZone].ips) : Zones[lastZone].ips[i] = ip

\* Addresses the call reported as throttled / restored.
ThrottledNow == {ip \in ConfiguredIps : Count(capLog, <<"throttled", ip>>) > 0}
RestoredNow == {ip \in ConfiguredIps : Count(capLog, <<"restored", ip>>) > 0}

\* Active addresses of the zone at the moment the throttle loop examines
\* ip: healthy, not throttled before the call, and not throttled by the call
\* while it examined the entries before ip.
ActiveWhenExamined(ip) ==
  Cardinality({j \in CallHealthy \ ovBefore :
                 ~(j \in ThrottledNow /\ IndexInZone(j) < IndexInZone(ip))})

\* The throttle part of C4 for one address, given its extra condition.
ThrottledOnce(ip) ==
  /\ ip \notin effective
  /\ ip \in overloaded_ips
  /\ Count(capLog, <<"throttled", ip>>) = 1

\* An address that was and stays throttled is not reported throttled again.
NoSecondThrottle ==
  \A ip \in ovBefore \cap overloaded_ips : Count(capLog, <<"throttled", ip>>) = 0

\* C4 as stated (load balancing enabled): a healthy address of the zone with
\* users > max_users, not throttled before the call, whose removal leaves
\* more than min_active_nodes active addresses, is out of the returned set,
\* in the overload set and reported throttled exactly once; an address that
\* stays throttled is not reported again.
C4_ThrottleOnExceedance ==
  (Called /\ config.lb_enabled) =>
    /\ \A ip \in CallHealthy \ ovBefore :
         (/\ users_by_ip[ip] > config.lb_max_users
          /\ ActiveWhenExamined(ip) - 1 > config.lb_min_active_nodes)
         => ThrottledOnce(ip)
    /\ NoSecondThrottle

\* C4 as amended: the same, for an address whose user count is also at
\* least recover_users.
C4_ThrottleOnExceedanceAboveRecover ==
  (Called /\ config.lb_enabled) =>
    /\ \A ip \in CallHealthy \ ovBefore :
         (/\ users_by_ip[ip] > config.lb_max_users
          /\ users_by_ip[ip] >= config.lb_recover_users
          /\ ActiveWhenExamined(ip) - 1 > config.lb_min_active_nodes)
         => ThrottledOnce(ip)
    /\ NoSecondThrottle

\* C4 witness: a call that throttled an address under the amended
\* condition while another address of the zone, throttled before, stayed
\* throttled above max_users.
C4_Witness ==
  /\ Called
  /\ config.lb_enabled
  /\ \E ip \in CallHealthy \ ovBefore :
       /\ users_by_ip[ip] > config.lb_max_users
       /\ users_by_ip[ip] >= config.lb_recover_users
       /\ ActiveWhenExamined(ip) - 1 > config.lb_min_active_nodes
       /\ ThrottledOnce(ip)
  /\ \E ip \in ovBefore \cap overloaded_ips \cap CallHealthy :
       users_by_ip[ip] > config.lb_max_users

\* C5: an address throttled before the call, healthy, configured in the
\* call's zone and with users < recover_users is in the returned set and no
\* longer in the overload set.
C5_Recovery ==
  Called =>
    \A ip \in ovBefore \cap CallHealthy :
      users_by_ip[ip] < config.lb_recover_users
      => (ip \in effective /\ ip \notin overloaded_ips)

\* C5 witness: a call that restored such an address.
C5_Witness ==
  /\ Called
  /\ \E ip \in ovBefore \cap CallHealthy :
       /\ users_by_ip[ip] < config.lb_recover_users
       /\ ip \in effective
       /\ ip \notin overloaded_ips
       /\ ip \in RestoredNow

\* C6: a call for a zone with at most min_active_nodes healthy configured
\* addresses inserts nothing into the overload set.
C6_FloorInvariant ==
  (Called /\ Cardinality(CallHealthy) <= config.lb_min_active_nodes) =>
    /\ ThrottledNow = {}
    /\ overloaded_ips \subseteq ovBefore

\* C6 witness: such a call with load balancing enabled, every healthy
\* address of the zone above max_users and none of them throttled.
C6_Witness ==
  /\ Called
  /\ config.lb_enabled
  /\ CallHealthy # {}
  /\ Cardinality(CallHealthy) = config.lb_min_active_nodes
  /\ \A ip \in CallHealthy : users_by_ip[ip] > config.lb_max_users
  /\ CallHealthy \cap ovBefore = {}
  /\ overloaded_ips \subseteq ovBefore

\* C7: an address not throttled before the call with users = max_users is
\* not throttled by it; an address throttled before the call with
\* users = recover_users is not restored by it.
C7_BoundaryExactness ==
  Called =>
    /\ \A ip \in ConfiguredIps \ ovBefore :
         users_by_ip[ip] = config.lb_max_users
         => (ip \notin ThrottledNow /\ ip \notin overloaded_ips)
    /\ \A ip \in ovBefore :
         users_by_ip[ip] = config.lb_recover_users
         => (ip \notin RestoredNow /\ ip \in overloaded_ips)

\* C7 witness: a call with load balancing enabled that kept a healthy
\* address at exactly max_users, with more active addresses than the floor,
\* and kept throttled a healthy address at exactly recover_users.
C7_Witness ==
  /\ Called
  /\ config.lb_enabled
  /\ \E ip \in CallHealthy \ ovBefore :
       /\ users_by_ip[ip] = config.lb_max_users
       /\ ActiveWhenExamined(ip) > config.lb_min_active_nodes
       /\ ip \in effective
  /\ \E ip \in ovBefore \cap CallHealthy :
       /\ users_by_ip[ip] = config.lb_recover_users
       /\ ip \in overloaded_ips
       /\ ip \notin effective

\* C8 as stated: with load balancing enabled, a call in which every
\* address has users <= max_users returns the healthy set it was given.
C8_NoFilteringUnderNormalLoad ==
  (/\ Called
   /\ config.lb_enabled
   /\ \A ip \in ConfiguredIps : users_by_ip[ip] <= config.lb_max_users)
  => effective = healthy_addresses

\* C8 as amended: the same, when no healthy address of the zone is
\* throttled at the start of the call.
C8_NoFilteringUnderNormalLoadFresh ==
  (/\ Called
   /\ config.lb_enabled
   /\ \A ip \in ConfiguredIps : users_by_ip[ip] <= config.lb_max_users
   /\ ovBefore \cap CallHealthy = {})
  => effective = healthy_addresses

\* C8 witness: such a call with an address at exactly max_users, more
\* active addresses than the floor, and a non-empty overload set.
C8_Witness ==
  /\ Called
  /\ config.lb_enabled
  /\ \A ip \in ConfiguredIps : users_by_ip[ip] <= config.lb_max_users
  /\ ovBefore \cap CallHealthy = {}
  /\ ovBefore # {}
  /\ \E ip \in CallHealthy :
       /\ users_by_ip[ip] = config.lb_max_users
       /\ ActiveWhenExamined(ip) > config.lb_min_active_nodes
  /\ effective = healthy_addresses

\* C9: with load balancing disabled, a call returns the healthy set it was
\* given and leaves the overload set as it was.
C9_PassThroughWhenDisabled ==
  (Called /\ ~config.lb_enabled) =>
    /\ effective = healthy_addresses
    /\ overloaded_ips = ovBefore
    /\ capLog = <<>>

\* C9 witness: a call with load balancing disabled in which every address
\* of the zone is healthy and above max_users.
C9_Witness ==
  /\ Called
  /\ ~config.lb_enabled
  /\ CallHealthy = CallIps
  /\ \A ip \in CallIps : users_by_ip[ip] > config.lb_max_users
  /\ effective = healthy_addresses

\* C10: a call for a zone returns every address configured only in another
\* zone exactly when the healthy set it was given holds it.
C10_ZoneIsolation ==
  Called =>
    \A ip \in ConfiguredIps \ CallIps :
      (ip \in effective) <=> (ip \in healthy_addresses)

\* C10 witness: a call that throttled one address of its zone and restored
\* another, while an address of the other zone only was healthy, throttled
\* and still returned.
C10_Witness ==
  /\ Called
  /\ ThrottledNow # {}
  /\ RestoredNow # {}
  /\ \E ip \in (ConfiguredIps \ CallIps) \cap healthy_addresses :
       /\ ip \in ovBefore
       /\ users_by_ip[ip] >= config.lb_recover_users
       /\ ip \in effective

\* The zone loop of the cycle is over, or no cycle is in progress.
ZonesDone == pos \in {0, NZones + 1}

\* C11: every address in the overload set entered it in a cycle that saw it
\* healthy with more users than lb_max_users, and once the zones of a cycle
\* have been processed no cycle after that insertion has seen it healthy
\* with fewer users than lb_recover_users.
C11_OverloadSetProvenance ==
  \A ip \in overloaded_ips :
    /\ ip \in insertedOver
    /\ ZonesDone => ip \notin lowSince

\* An address throttled in an earlier cycle stays throttled at the end of a
\* cycle that saw it healthy inside the band.
C11_Witness ==
  /\ pos = NZones + 1
  /\ config.lb_recover_users < config.lb_max_users
  /\ \E ip \in overloaded_ips \cap healthy_addresses :
       /\ users_by_ip[ip] = config.lb_max_users
       /\ ip \in insertedOver

\* C12: a filter call leaves in the overload set every throttled address
\* that is not configured in the call's zone or is not healthy; the call
\* reports no transition for it and its membership in the returned set is
\* the one it has in the healthy set the call was given.
C12_ForeignAndUnhealthyKept ==
  Called =>
    \A ip \in ovBefore :
      (ip \notin CallIps \/ ip \notin healthy_addresses) =>
        /\ ip \in overloaded_ips
        /\ ip \notin ThrottledNow \cup RestoredNow
        /\ ip \in effective <=> ip \in healthy_addresses

\* A call for s1 while "c" (configured in s2 only) is throttled and healthy
\* and a configured address of s1 is throttled and unhealthy.
C12_Witness ==
  /\ Called
  /\ config.lb_enabled
  /\ \E ip \in ovBefore \ CallIps : ip \in healthy_addresses
  /\ \E ip \in ovBefore \cap CallIps : ip \notin healthy_addresses

(***************************************************************************)
(* Properties of one run of sync_dns_records (SpecSync).                   *)
(***************************************************************************)
SyncOver == syncPc = "done"

\* The calls of the run with the given operation, as a bag.
CallsOf(op) ==
  [c \in {d \in BagToSet(calls) : d.op = op} |-> CopiesIn(c, calls)]

\* A create for ip carrying the ttl and proxied configured for the zone.
ZoneCreate(ip) ==
  [op |-> "create", content |-> ip, ttl |-> Zones[syncZone].ttl,
   proxied |-> Zones[syncZone].proxied]

\* C13 as stated: when a run is over it has issued exactly one create, with
\* the zone's ttl and proxied, for each address of healthy_ips that had no
\* record.
C13_CreatesForEffective ==
  SyncOver =>
    CallsOf("create") =
      SetToBag({ZoneCreate(ip) : ip \in syncHealthy \ ExistingIps(syncExisting)})

\* C13: when a run is over it has issued exactly one create, with the
\* zone's ttl and proxied, for each address of healthy_ips that is configured
\* in the zone and had no record.
C13_CreatesForEffectiveOfZone ==
  SyncOver =>
    CallsOf("create") =
      SetToBag({ZoneCreate(ip) :
                  ip \in (syncHealthy \cap ConfiguredSet)
                           \ ExistingIps(syncExisting)})

\* A first run for s2 that created two records and found a third in place.
C13_Witness ==
  /\ SyncOver
  /\ run = 1
  /\ syncZone = 2
  /\ BagCardinality(CallsOf("create")) = 2
  /\ syncHealthy \cap ExistingIps(syncExisting) # {}

\* C14: when a run is over it has issued exactly one delete for the
\* existing record of each address in (configured_ips - healthy_ips) or in
\* (existing contents - configured_ips), and no other delete.
C14_DeletesExact ==
  SyncOver =>
    CallsOf("delete") =
      SetToBag({DeleteCall(r) :
                  r \in {e \in syncExisting :
                           \/ e.content \in ConfiguredSet \ syncHealthy
                           \/ e.content \notin ConfiguredSet}})

\* A first run that deleted the record of an unhealthy configured address
\* and the record of an address no snapshot knows.
C14_Witness ==
  /\ SyncOver
  /\ run = 1
  /\ \E c \in BagToSet(calls) :
       c.op = "delete" /\ c.content \in ConfiguredSet \ syncHealthy
  /\ \E c \in BagToSet(calls) : c.op = "delete" /\ c.content = StrayIp

\* C15 as stated: a fetched record whose content is in healthy_ips stays at
\* the provider as it was, no call of the run names its content, and the
\* run issues nothing but creates and deletes.
C15_ExistingUntouched ==
  /\ \A c \in BagToSet(calls) : c.op \in {"create", "delete"}
  /\ \A r \in syncExisting :
       r.content \in syncHealthy =>
         /\ r \in records[syncZone]
         /\ \A c \in BagToSet(calls) : c.content # r.content

\* C15: a fetched record whose content is in healthy_ips and configured in
\* the zone stays at the provider as it was (same ttl and proxied), no call
\* of the run names its content, and the run issues nothing but creates and
\* deletes.
C15_ExistingUntouchedOfZone ==
  /\ \A c \in BagToSet(calls) : c.op \in {"create", "delete"}
  /\ \A r \in syncExisting :
       r.content \in syncHealthy \cap ConfiguredSet =>
         /\ r \in records[syncZone]
         /\ \A c \in BagToSet(calls) : c.content # r.content

\* A run that issued calls is over and a record whose ttl differs from the
\* zone's was in place for a healthy configured address.
C15_Witness ==
  /\ SyncOver
  /\ calls # EmptyBag
  /\ \E r \in syncExisting :
       /\ r.content \in syncHealthy \cap ConfiguredSet
       /\ r.ttl # SyncZoneCfg.ttl

\* C16: a run that follows another run for the same zone and healthy_ips,
\* no provider request having failed in either, issues no call.
C16_SecondRunIdle ==
  (run = 2 /\ errFree) => calls = EmptyBag

\* The second run is over after a first run that created a record and
\* deleted another.
C16_Witness ==
  /\ SyncOver
  /\ run = 2
  /\ errFree
  /\ \E r \in records[syncZone] : r.ttl = SyncZoneCfg.ttl
  /\ ExistingIps(SyncStartRecords) \ ExistingIps(records[syncZone]) # {}
  /\ ExistingIps(records[syncZone]) # {}

\* C17: with error notifications on, every create or delete request the
\* provider rejects has been reported as a dns-error event of its own.
C17_FailureReported ==
  notify_errors =>
    \A e \in BagToSet(rejections) :
      CopiesIn(e, dns_errors) = CopiesIn(e, rejections)

(***************************************************************************)
(* Properties of the notifier's bookkeeping (SpecNotify), stated over the  *)
(* cycle in progress: its snapshot and what the bookkeeping emitted.       *)
(***************************************************************************)
InCycle == pos \in 1..(NZones + 1)

NodeChangesOn == notifier /\ telegram_notify_node_changes

CriticalOn == notifier /\ telegram_notify_critical

\* The transition notifications of this cycle for the address ip.
TransitionsFor(ip) == {e \in notified.transitions : e.node_address = ip}

\* C18: with node-change notifications on, a cycle emits no transition
\* notification for an address it does not observe or observes for the
\* first time, and for an address observed before it emits exactly one if
\* the health differs from the one of the previous observation and none
\* otherwise.
C18_TransitionNotifications ==
  (InCycle /\ NodeChangesOn) =>
    \A ip \in ConfiguredIps :
      LET n    == Cardinality(TransitionsFor(ip))
          before == notified.healthBefore[ip]
          now  == IF ip \in healthy_addresses THEN "healthy" ELSE "unhealthy"
      IN  /\ ip \notin notified.nodes => n = 0
          /\ (ip \in notified.nodes /\ before = "none") => n = 0
          /\ (ip \in notified.nodes /\ before # "none") =>
                /\ before # now => n = 1
                /\ before = now => n = 0
          /\ \A e \in TransitionsFor(ip) :
                e.previous_healthy = before /\ e.current_healthy = now

\* One cycle observes an address for the first time, reports a change of
\* a second one and sees a third one unchanged or not at all.
C18_Witness ==
  /\ InCycle
  /\ NodeChangesOn
  /\ \E ip \in notified.nodes : notified.healthBefore[ip] = "none"
  /\ \E ip \in notified.nodes : TransitionsFor(ip) # {}
  /\ \E ip \in ConfiguredIps :
       notified.healthBefore[ip] # "none" /\ TransitionsFor(ip) = {}

\* The snapshot of the cycle reports configured nodes, none of them healthy.
NowAllDown == notified.nodes # {} /\ healthy_addresses = {}

\* The all-down alert is emitted exactly in the cycles that find the fleet
\* all-down when the cycle before did not.
AlertOnEntering ==
  /\ (NowAllDown /\ ~notified.downBefore) => notified.critical = 1
  /\ (NowAllDown /\ notified.downBefore) => notified.critical = 0
  /\ ~NowAllDown => notified.critical = 0

\* C19 as stated: with critical notifications on, the all-down alert is
\* emitted in the cycle that enters the all-down state, not in the cycles
\* that follow while the fleet stays all-down, and a further alert only
\* after a cycle in which some node was healthy.
C19_AllDownAlert ==
  (InCycle /\ CriticalOn) =>
    /\ AlertOnEntering
    /\ notified.rearmedBy \in {"none", "first", "healthy"}

\* C19: with critical notifications on, the all-down alert is emitted in
\* the cycle that enters the all-down state, not in the cycles that follow
\* while the fleet stays all-down, and a further alert only after a cycle
\* in which the fleet was not all-down: some node was healthy or no
\* configured node was reported.
C19_AllDownAlertRearmed ==
  (InCycle /\ CriticalOn) =>
    /\ AlertOnEntering
    /\ notified.rearmedBy \in {"none", "first", "healthy", "not_down"}

\* A second alert, emitted after the fleet had a healthy node again.
C19_Witness ==
  /\ InCycle
  /\ CriticalOn
  /\ notified.critical = 1
  /\ notified.rearmedBy = "healthy"

(***************************************************************************)
(* Properties of the zone-id resolution, stated over the latest zone of    *)
(* the loop.                                                               *)
(***************************************************************************)
\* The zone loop has just handled a zone.
ZoneHandled == resolution # "none"

\* Domain of that zone.
HandledDomain == Zones[pos - 1].domain

\* The provider is asked exactly when the domain has no cache entry, a
\* resolved id is cached and the zone processed, and a failed resolution
\* caches nothing and skips the zone: no filter call, no DNS operation.
ResolutionContract ==
  /\ resolution = "cached" <=> HandledDomain \in cacheBefore
  /\ cacheBefore \subseteq zone_id_cache
  /\ resolution \in {"cached", "resolved"} =>
       /\ HandledDomain \in zone_id_cache
       /\ lastZone = pos - 1
  /\ resolution = "failed" =>
       /\ zone_id_cache = cacheBefore
       /\ lastZone = 0
       /\ capLog = <<>>
       /\ dnsOps = NoDnsOps

\* C20 as stated: a resolved id is cached and the provider not asked again
\* for the domain; a failed resolution is not cached, every zone of the
\* domain is skipped in that cycle, and the provider is asked again later.
C20_ZoneIdResolution ==
  ZoneHandled =>
    /\ ResolutionContract
    /\ HandledDomain \in failedDomains => resolution = "failed"

\* C20: a resolved id is cached and the provider not asked again for the
\* domain; a failed resolution is not cached and the zone it was made for
\* is skipped; the provider is asked again for the next zone of the domain,
\* in the same cycle or a later one.
C20_ZoneIdResolutionPerZone ==
  ZoneHandled =>
    /\ ResolutionContract
    /\ resolution = "failed" => HandledDomain \in failedDomains

\* Both zones of a cycle were skipped although a node was healthy and a
\* record was in place.
C20_Witness ==
  /\ pos = NZones + 1
  /\ resolution = "failed"
  /\ Cardinality(failedDomains) = 1
  /\ healthy_addresses # {}
  /\ records[NZones] # {}


(***************************************************************************)
(* The monitoring loop: exceptions and shutdown.                           *)
(***************************************************************************)
\* The latest call of perform_health_check was left by an Exception.
CycleRaised == outcome = "raised"

\* C21: an exception that leaves a cycle is reported once as a
\* health-check-error notification when the service has a notifier and error
\* notifications are on, and not otherwise; it is raised to the loop, which
\* sleeps and goes on to the next cycle: the loop is only ever left on a
\* shutdown signal.
C21_CycleExceptionReported ==
  /\ CycleRaised =>
        /\ health_errors = IF notifier /\ telegram_notify_errors THEN 1 ELSE 0
        /\ ~signalled => loopPc \in {"retry_sleep", "call"}
  /\ loopPc = "stopped" => signalled

\* A cycle raised with error notifications on after the overload set was
\* filled, and the loop has slept and is about to start the next cycle.
C21_Witness ==
  /\ CycleRaised
  /\ health_errors = 1
  /\ loopPc = "call"
  /\ overloaded_ips # {}

\* C22: when the node-status fetch fails, the cycle issues no DNS create or
\* delete and leaves the provider's records, the overload set, the
\* previous-health map and the previous-all-down flag as they were.
C22_FailedFetchChangesNothing ==
  [][(loopPc = "call" /\ outcome' = "raised") =>
       /\ UNCHANGED << overloaded_ips, previous_node_states,
                       previous_all_down, records, calls >>
       /\ dnsOps' = NoDnsOps]_vars

\* The fetch failed in a process that holds a throttled address, a node
\* recorded as unhealthy and the all-down flag.
C22_Witness ==
  /\ CycleRaised
  /\ overloaded_ips # {}
  /\ previous_all_down
  /\ \E ip \in ConfiguredIps : previous_node_states[ip] = "unhealthy"

\* Every create and delete the run of the zone has to issue was issued, and
\* no request is cut short.
ZoneReconciled ==
  /\ cur = "none"
  /\ \A ip \in (ConfiguredSet \cap syncHealthy) \ ExistingIps(syncExisting) :
       ZoneCreate(ip) \in BagToSet(calls)
  /\ \A r \in syncExisting :
       (r.content \notin ConfiguredSet \/ r.content \notin syncHealthy) =>
         DeleteCall(r) \in BagToSet(calls)

\* C23: when a shutdown signal arrives while a cycle is in flight, the cycle
\* finishes reconciling its current zone (all the creates and deletes of the
\* zone are issued) before the loop stops, and the loop starts no further
\* sleep or cycle.
C23_ShutdownFinishesZone ==
  signalled => /\ ZoneReconciled
               /\ loopPc = "stopped"
               /\ inFlight = 0

\* C24: at most one call of perform_health_check is in flight: the loop
\* starts one only when the previous one, zone loop included, has returned
\* or raised.
C24_OneCycleInFlight ==
  /\ inFlight \in {0, 1}
  /\ inFlight = 1 <=> loopPc = "in_check"
  /\ loopPc \in {"call", "sleep", "retry_sleep"} => pos = 0

\* A cycle is in flight, not the first of the process: the zone-id cache
\* was filled by an earlier one.
C24_Witness ==
  /\ inFlight = 1
  /\ pos = 1
  /\ zone_id_cache # {}

(***************************************************************************)
(* The notifier.                                                           *)
(***************************************************************************)
\* s is an initial segment of t
IsPrefix(s, t) ==
  /\ Len(s) <= Len(t)
  /\ \A i \in 1..Len(s) : s[i] = t[i]

\* The step hands a message to an enabled notifier.
EnqueueStep == enabled /\ nextId' = nextId + 1

\* C25: the queue never holds more than queue_size messages; handing a
\* message to a full queue drops that message and leaves the queued ones as
\* they are, and the call returns; a queue with room takes the message at
\* its end.
C25_QueueBounded ==
  [][/\ Len(queue') <= queue_size
     /\ EnqueueStep =>
          IF Len(queue) = queue_size
          THEN /\ queue' = queue
               /\ dropped' = dropped \cup {nextId}
               /\ mainPc' # mainPc \/ mainPc' = "run"
          ELSE /\ queue' = Append(queue, nextId)
               /\ dropped' = dropped]_vars

\* A message was dropped by a full queue that holds the two handed over
\* before it.
C25_Witness ==
  /\ dropped # {}
  /\ Len(queue) = queue_size
  /\ \A d \in dropped : \A i \in 1..Len(queue) : queue[i] < d

\* C26: the worker delivers the messages in the order they were accepted,
\* none skipped, also when a send fails and is retried.
C26_SentInOrder == IsPrefix(sent, accepted)

\* Two messages were delivered, the first after a failed send.
C26_Witness ==
  /\ Len(sent) >= 2
  /\ sent[1] \in retried

\* C27: after stop() is called the worker keeps taking and sending messages
\* until the queue is empty or the grace period is over, and is stopped only
\* then; the messages queued when stop() was called are delivered when no
\* send fails and the grace period does not run out.
C27_StopDrainsQueue ==
  /\ (mainPc = "grace" /\ queue # <<>>) => workerPc \in {"get", "send", "pause"}
  /\ (mainPc = "stopped" /\ ~graceElapsed /\ retried = {}) =>
        \A i \in 1..Len(queuedAtStop) :
          \E j \in 1..Len(sent) : sent[j] = queuedAtStop[i]

\* The step is an iteration of the zone loop.
ZoneLoopStep == loopPc = "in_check" /\ pos \in 1..NZones /\ pos' # pos

\* What the iteration of a zone without a zone id does to the variables of
\* the cycle and to the records.
ZoneSkipWork ==
  /\ pos' = pos + 1
  /\ dnsOps' = NoDnsOps
  /\ UNCHANGED << overloaded_ips, records >>

\* C28: the DNS operations issued and the evolution of the overload set are
\* the same whether the service has no notifier, a disabled one, an enabled
\* one, one whose queue is full or one that delivers nothing: every
\* iteration of the zone loop does to the cycle and to the records what the
\* iteration of a service without notifier does.
C28_NotificationsNeverGate ==
  [][ZoneLoopStep => (ZoneWork \/ ZoneSkipWork)]_vars

\* An iteration throttled a node and created a record while the enabled
\* notifier dropped its messages on a full queue.
C28_Witness ==
  /\ enabled
  /\ "capacity_change" \in dropped
  /\ "dns_change" \in dropped
  /\ capLog # <<>>
  /\ dnsOps.created # {}

(***************************************************************************)
(* Failures of provider calls.                                             *)
(***************************************************************************)
\* Client errors the provider gave to the create for ip in this run.
CreateRejections(ip) == CopiesIn(DnsErrorEvent("add", ip), rejections)

\* C29: a create the provider answers with a client error is not sent
\* again: the call is over at once and no record appears; it is reported as
\* one dns-error for that address when error notifications are on; and the
\* run goes on to issue the creates and deletes of the other addresses.
C29_ClientErrorNotRetried ==
  /\ \A ip \in ConfiguredIps :
       /\ CreateRejections(ip) <= 1
       /\ CopiesIn(DnsErrorEvent("add", ip), dns_errors) =
            IF notify_errors THEN CreateRejections(ip) ELSE 0
       /\ CreateRejections(ip) = 1 =>
            /\ cur # ip
            /\ CopiesIn(ZoneCreate(ip), calls) = 1
            /\ ip \notin ExistingIps(records[syncZone])
  /\ SyncOver => ZoneReconciled

\* A run is over in which the create of one address was rejected and
\* reported, the create of another succeeded and a record was deleted.
C29_Witness ==
  /\ SyncOver
  /\ notify_errors
  /\ \E ip \in ConfiguredIps :
       /\ CreateRejections(ip) = 1
       /\ \E other \in ConfiguredIps \ {ip} :
            /\ ZoneCreate(other) \in BagToSet(calls)
            /\ other \in ExistingIps(records[syncZone])
  /\ \E c \in BagToSet(calls) : c.op = "delete"

\* A delay that starts at retry_delay and doubles with every retry, capped.
RECURSIVE DoublingDelay(_)
DoublingDelay(n) ==
  IF n <= 1 THEN Min(retry_delay, RetryDelayCap)
  ELSE Min(2 * DoublingDelay(n - 1), RetryDelayCap)

\* Only a client error given to a create leaves a call of the client.
OnlyClientErrorRaised ==
  callOutcome = "raised" =>
    callOp = "create_dns_record" /\ lastFailure = "client_error"

\* C30 as claimed: a transient failure of a provider call is retried at the
\* call site and never raised to the reconciler, and the delay before the
\* n-th retry grows exponentially with n up to a fixed cap.
C30_RetryDelayExponential ==
  /\ OnlyClientErrorRaised
  /\ callAttempt >= 1 => lastDelay = DoublingDelay(callAttempt)

\* C30 as the code has it: a transient failure of a provider call is
\* retried at the call site and never raised to the reconciler, and the
\* delay before the n-th retry is n times retry_delay, capped at 30 seconds:
\* it grows linearly with n up to the cap.
C30_RetryDelayLinear ==
  /\ OnlyClientErrorRaised
  /\ callAttempt >= 1 =>
        lastDelay = Min(retry_delay * callAttempt, RetryDelayCap)

\* A call that returned after transient failures only, the delay of the
\* last of which was cut by the cap.
C30_Witness ==
  /\ callOutcome = "returned"
  /\ lastFailure = "transient"
  /\ retry_delay * callAttempt > RetryDelayCap
  /\ lastDelay = RetryDelayCap

\* The capacity-change events the call handed to the notifier.
CapacityEvents == CapacityMessages(capLog)

\* Reports of the call about ip: throttled, restored.
Throttles(ip) == Count(capLog, <<"throttled", ip>>)
Restores(ip) == Count(capLog, <<"restored", ip>>)

\* C31: with a notifier attached, a filter call emits exactly one
\* capacity-change event for every insertion into the overload set (a
\* throttled report) and exactly one for every removal (a restored report):
\* an address that entered the set has one throttled report and no restored
\* one, an address that left it has one restored report and no throttled
\* one, an address whose membership is the same has either none or one of
\* each, and there are no other events; an over-threshold address kept
\* active by the floor has none.
C31_OneEventPerTransition ==
  (Called /\ notifier) =>
    /\ Len(CapacityEvents) = Len(capLog)
    /\ \A i \in 1..Len(capLog) : capLog[i][2] \in ConfiguredIps
    /\ \A ip \in ConfiguredIps :
         /\ Throttles(ip) <= 1
         /\ Restores(ip) <= 1
         /\ ip \in overloaded_ips \ ovBefore =>
              Throttles(ip) = 1 /\ Restores(ip) = 0
         /\ ip \in ovBefore \ overloaded_ips =>
              Throttles(ip) = 0 /\ Restores(ip) = 1
         /\ ip \in ovBefore \cap overloaded_ips =>
              Throttles(ip) = 0 /\ Restores(ip) = 0
         /\ ip \notin ovBefore \cup overloaded_ips =>
              Throttles(ip) = Restores(ip)
    /\ \A ip \in CallHealthy \ ovBefore :
         (/\ users_by_ip[ip] > config.lb_max_users
          /\ ActiveWhenExamined(ip) <= config.lb_min_active_nodes)
         => Throttles(ip) = 0 /\ Restores(ip) = 0

\* A call of a service with a notifier that throttled an address and kept
\* another over-threshold address active because of the floor.
C31_Witness ==
  /\ Called
  /\ notifier
  /\ overloaded_ips \ ovBefore # {}
  /\ \E ip \in (CallHealthy \ ovBefore) \cap effective :
       users_by_ip[ip] > config.lb_max_users

Max(a, b) == IF a >= b THEN a ELSE b

\* The zone's healthy addresses not throttled when the call starts, and
\* those of them over the threshold.
ActiveAtStart == CallHealthy \ ovBefore
OverAtStart == {ip \in ActiveAtStart : users_by_ip[ip] > config.lb_max_users}

\* C32: a filter call (load balancing enabled) with a healthy addresses of
\* the zone not throttled at its start, k of them with more users than
\* max_users, newly throttles exactly min(k, max(0, a - min_active_nodes))
\* addresses; and a call that throttles an address leaves at least
\* min_active_nodes of the zone's healthy addresses in its output.
C32_ThrottleCount ==
  (Called /\ config.lb_enabled) =>
    /\ Cardinality(ThrottledNow) =
         Min(Cardinality(OverAtStart),
             Max(0, Cardinality(ActiveAtStart) - config.lb_min_active_nodes))
    /\ ThrottledNow # {} =>
         Cardinality(CallHealthy \cap effective) >= config.lb_min_active_nodes

\* A call in which the floor stopped the throttling: some address was
\* throttled and fewer than the over-threshold ones.
C32_Witness ==
  /\ Called
  /\ config.lb_enabled
  /\ ThrottledNow # {}
  /\ Cardinality(ThrottledNow) < Cardinality(OverAtStart)
  /\ Cardinality(CallHealthy \cap effective) = config.lb_min_active_nodes

\* C33: in a cycle with load balancing enabled in which every zone id
\* resolves and no provider call fails, the A-record contents of a zone
\* after its iteration equal the zone's configured healthy addresses minus
\* the overload set as it stands right after that zone's filter call, and
\* no other step of the cycle changes them: at the end of the cycle they
\* are what the zone's own iteration left.
C33_RecordsAfterCycle ==
  [][/\ (Called /\ config.lb_enabled)' =>
          (ExistingIps(records[lastZone]) = CallHealthy \ overloaded_ips)'
     /\ \A z \in 1..NZones : (z # pos /\ pos # 0) => records'[z] = records[z]
    ]_vars

\* The end of a cycle in which the second zone's filter call throttled an
\* address that the first zone's call had left in the first zone's records.
C33_Witness ==
  /\ pos = NZones + 1
  /\ config.lb_enabled
  /\ lastZone = NZones
  /\ ExistingIps(records[1]) \cap (overloaded_ips \ ovBefore) # {}
  /\ ExistingIps(records[NZones]) = CallHealthy \ overloaded_ips

\* C34: after a filter call with load balancing enabled, the returned set
\* is a subset of the healthy input set, and a healthy address of the
\* zone's configured list is in the returned set iff it is not in the
\* overload set at the end of the call.
C34_OutputMatchesOverloadSet ==
  (Called /\ config.lb_enabled) =>
    /\ effective \subseteq healthy_addresses
    /\ \A ip \in CallHealthy : ip \in effective <=> ip \notin overloaded_ips

\* A call that returned some healthy addresses of the zone, held back
\* another one that was throttled before it, and restored a third.
C34_Witness ==
  /\ Called
  /\ config.lb_enabled
  /\ CallHealthy \cap effective # {}
  /\ CallHealthy \cap ovBefore \cap overloaded_ips # {}
  /\ RestoredNow # {}

\* C35: when recover_users < max_users, no address is both inserted into
\* and removed from the overload set within one filter call: no call
\* reports the same address as throttled and as restored.
C35_NoThrottleAndRestore ==
  (Called /\ config.lb_enabled /\
   config.lb_recover_users < config.lb_max_users) =>
    /\ ThrottledNow \cap RestoredNow = {}
    /\ ThrottledNow = overloaded_ips \ ovBefore
    /\ RestoredNow = ovBefore \ overloaded_ips

\* A call under recover_users < max_users that throttled one address and
\* restored another.
C35_Witness ==
  /\ Called
  /\ config.lb_enabled
  /\ config.lb_recover_users < config.lb_max_users
  /\ ThrottledNow # {}
  /\ RestoredNow # {}

\* What a filter call for zone z may leave, given the overload set ov and
\* the snapshot (h, u): the new overload set and the returned set, for
\* every order in which phase 2 may enumerate the overload set.
FilterOutcomes(z, ov, h, u) ==
  { [ov |-> r.ov, eff |-> r.eff] :
      r \in { ApplyCapacityFiltering(Zones[z].ips, h, u, ov, order) :
                order \in Orders(AfterThrottle(Zones[z].ips, h, u, ov).ov) } }

\* What the first n iterations of the zone loop of one cycle may leave when
\* every zone id resolves: the overload set and the output for each zone.
RECURSIVE SyncAllZones(_, _, _, _)
SyncAllZones(n, ov, h, u) ==
  IF n = 0 THEN {[ov |-> ov, out |-> <<>>]}
  ELSE UNION { { [ov |-> r.ov, out |-> Append(c.out, r.eff)] :
                   r \in FilterOutcomes(n, c.ov, h, u) } :
               c \in SyncAllZones(n - 1, ov, h, u) }

\* A cycle that starts from the overload set ov under the snapshot of the
\* cycle in progress.
SameCycle(ov) == SyncAllZones(NZones, ov, healthy_addresses, users_by_ip)

\* A cycle has fetched its snapshot and is about to enter the zone loop,
\* load balancing being enabled with recover_users < max_users.
SteadyStart ==
  /\ pos = 1
  /\ config.lb_enabled
  /\ config.lb_recover_users < config.lb_max_users

CreatedAddresses == {c.content : c \in {d \in BagToSet(calls) : d.op = "create"}}
DeletedAddresses == {c.content : c \in {d \in BagToSet(calls) : d.op = "delete"}}

\* C37: at every moment of a run of sync_dns_records, the addresses for
\* which it has issued a create and those for which it has issued a delete
\* are disjoint, no address has been created twice, and no record has been
\* the target of more than one delete.
C37_CreatesAndDeletesDisjoint ==
  /\ CreatedAddresses \cap DeletedAddresses = {}
  /\ \A c \in BagToSet(calls) : CopiesIn(c, calls) = 1
  /\ \A c, d \in BagToSet(calls) : (c.op = d.op /\ c.content = d.content) => c = d

\* A run that created a record, deleted the record of an unhealthy
\* configured address and deleted a record of an unconfigured address.
C37_Witness ==
  /\ SyncOver
  /\ CreatedAddresses # {}
  /\ DeletedAddresses \cap ConfiguredSet # {}
  /\ StrayIp \in DeletedAddresses

\* A call of the client is in progress: a request is out or the call sleeps
\* before its next request.
CallInProgress == callOutcome \in {"pending", "retry_delay"}

\* C38: provided every external call eventually answers with a success or
\* a client error, a cycle always terminates: every call of the client it
\* waits for, a list or a delete included, comes to an end by returning or
\* raising, so that a call that keeps failing does not block the rest of
\* the zone loop for ever.
C38_CallTerminates == CallInProgress ~> ~CallInProgress

\* The worker task has ended or was never started.
WorkerEnded == workerPc \in {"none", "exited", "cancelled"}

\* C39: stop() always terminates: once it waits for the queue it comes to
\* its end, whatever the worker and the sends do; when it has returned the
\* worker task has ended, by leaving its loop or by cancellation; and no
\* message is sent after it has returned.
C39_StopTerminates ==
  /\ (mainPc = "grace") ~> (mainPc = "stopped")
  /\ [](mainPc = "stopped" => WorkerEnded)
  /\ [][mainPc = "stopped" => sent' = sent]_vars

\* stop() has returned after its 5 s, having cancelled a worker whose send
\* had failed and was being sent again.
C39_Witness ==
  /\ mainPc = "stopped"
  /\ graceElapsed
  /\ workerPc = "cancelled"
  /\ held # 0
  /\ send_attempt = MaxAttempt

====
